---------------------------- MODULE Spec2Model ----------------------------
(***************************************************************************)
(* A model of the OCash SDK core: the sparse Merkle accumulator            *)
(* (ocash-merkle), the memo envelope (ocash-crypto/memo.rs) over the       *)
(* twisted-Edwards curve (babyjubjub.rs), and the sync engine (ocash-sync) *)
(* over the in-memory store (ocash-store).                                 *)
(*                                                                         *)
(* Field elements that only flow through the two-to-one hash are modelled  *)
(* as terms: an atom <<n>> or a hash <<left, right, domain>>.  The hash is *)
(* thereby injective, which is the assumption the Merkle claims make.      *)
(***************************************************************************)
EXTENDS Integers, Sequences, FiniteSets, TLC

VARIABLES
    depth,      \* LocalMerkleTree.depth
    leaves,     \* LocalMerkleTree.leaves
    mres,       \* the last call made on the tree and what it returned
    appendFailed, \* history: some append_leaves call on the tree has panicked
    wire,       \* the memo string at hand, and how it came about
    dres,       \* the last decrypt_memo call and what it returned
    cursors,    \* MemoryStore.cursors
    utxos,      \* MemoryStore.utxos
    pc,         \* where the engine's sync_once call stands
    chain_index, \* the chain sync_once is at, as an index into chains
    cursor,     \* sync_chain's local cursor
    total_downloaded, \* the local counter of sync_memos / sync_nullifiers
    events,     \* what the event handler has been handed during this call
    resp,       \* the last reply of the entry service
    sync_result, \* what the last sync_once call returned
    pass_start, \* history: what get_sync_cursor returned to this sync_chain
    fres,       \* the last call of a function of ocash-crypto / ocash-types
    sres,       \* the last call made on the store directly, and what it returned
    wcall,      \* the arguments of the wait_for_tx_hash call under way
    wpc,        \* where the wait_for_tx_hash call stands
    attempt,    \* the loop variable of wait_for_tx_hash
    polls,      \* history: what each get_tx_hash of this call returned
    sleeps,     \* history: the sleeps of this call, each with the polls before it
    wresult,    \* what the last wait_for_tx_hash call returned
    plan,       \* the last select_transfer_inputs call and what it returned
    indexer,    \* the entry service's sequences, per chain
    passes      \* the sync_once calls under way on the shared store

merkleVars == <<depth, leaves, mres, appendFailed>>

memoVars == <<wire, dres>>

syncVars ==
    <<cursors, utxos, pc, chain_index, cursor, total_downloaded, events, resp,
      sync_result, pass_start>>

storeVars == <<sres>>

relayerVars == <<wcall, wpc, attempt, polls, sleeps, wresult>>

plannerVars == <<plan>>

laterVars == <<storeVars, relayerVars, plannerVars, indexer, passes>>

vars ==
    <<depth, leaves, mres, appendFailed, wire, dres, cursors, utxos, pc,
      chain_index, cursor, total_downloaded, events, resp, sync_result,
      pass_start, fres, sres, wcall, wpc, attempt, polls, sleeps, wresult,
      plan, indexer, passes>>

\* SyncCursor::default()
DefaultCursor == [memo |-> 0, nullifier |-> 0, merkle |-> 0]

\* No relayer client, planner or direct store call at work, no entry
\* service serving, no concurrent pass.
LaterIdle ==
    /\ sres = [op |-> "idle"]
    /\ wcall = [op |-> "idle"]
    /\ wpc = "idle"
    /\ attempt = 0
    /\ polls = <<>>
    /\ sleeps = <<>>
    /\ wresult = [state |-> "none"]
    /\ plan = [op |-> "idle"]
    /\ indexer = <<>>
    /\ passes = <<>>

\* A new engine over a new store, no call made yet.
SyncIdle ==
    /\ LaterIdle
    /\ cursors = <<>>
    /\ utxos = <<>>
    /\ pc = "idle"
    /\ chain_index = 0
    /\ cursor = DefaultCursor
    /\ total_downloaded = 0
    /\ events = <<>>
    /\ resp = [kind |-> "none"]
    /\ sync_result = [state |-> "none"]
    /\ pass_start = <<>>
    /\ fres = [op |-> "idle"]

(***************************************************************************)
(* Bounds of the model.                                                    *)
(***************************************************************************)
\* the longest leaf sequence the model grows a tree to
MaxLeaves == 3
\* the longest batch handed to append_leaves
MaxBatch == 2
\* the longest cid list handed to build_proof_by_cids
MaxCids == 1
\* how far above TREE_DEPTH_DEFAULT a requested depth may lie
DepthSlack == 1
\* the largest value a component of a sync cursor is taken to
MaxCursor == 2
\* the longest list handed to hash_sequence_with_domain
MaxInputs == 3
\* the longest list handed to upsert_utxos by a direct caller
MaxUpsert == 2
\* the largest max_attempts handed to wait_for_tx_hash
MaxAttempts == 3
\* the longest UTXO list handed to select_transfer_inputs
MaxUtxos == 3
\* the longest sequence an entry service with fixed sequences holds
MaxServed == 3

(***************************************************************************)
(* ocash-merkle                                                            *)
(***************************************************************************)
\* The default depth, and the size of the zero-hash table (32 in the
\* source; scaled down so that the table's end is within reach).
TREE_DEPTH_DEFAULT == 2

\* Fr::from(0)
Zero == <<0>>

\* The value of an evaluation that panicked (index out of bounds).
Trap == <<>>

\* poseidon2::hash_with_domain: a two-to-one hash, injective on
\* (left, right, domain).
hash_with_domain(a, b, domain) == <<a, b, domain>>

\* zero_hashes(): the table Z[0..TREE_DEPTH_DEFAULT], Z[0] = 0 and
\* Z[l] = hash(Z[l-1], Z[l-1], Merkle).  Indexed 0-based as in the source.
RECURSIVE zero_hash_at(_)
zero_hash_at(l) ==
    IF l = 0 THEN Zero
    ELSE hash_with_domain(zero_hash_at(l - 1), zero_hash_at(l - 1), "Merkle")

zero_hashes == [i \in 1..(TREE_DEPTH_DEFAULT + 1) |-> zero_hash_at(i - 1)]

\* self.zero_hashes[level]: panics when level is past the table's end.
zero_hashes_index(level) ==
    IF level + 1 \in DOMAIN zero_hashes THEN zero_hashes[level + 1] ELSE Trap

\* LocalMerkleTree::new: depth.unwrap_or(TREE_DEPTH_DEFAULT).max(1).
\* The argument is <<>> for None and <<n>> for Some(n).
new_depth(arg) ==
    LET d == IF arg = <<>> THEN TREE_DEPTH_DEFAULT ELSE arg[1]
    IN  IF d < 1 THEN 1 ELSE d

leaf_count(lv) == Len(lv)

latest_cid(lv) == IF Len(lv) = 0 THEN 0 ELSE Len(lv) - 1

RECURSIVE Pow2(_)
Pow2(n) == IF n = 0 THEN 1 ELSE 2 * Pow2(n - 1)

\* LocalMerkleTree::node, on the leaf sequence lv (0-based positions).
RECURSIVE node(_, _, _)
node(lv, level, position) ==
    IF level = 0
    THEN IF position < Len(lv) THEN lv[position + 1] ELSE zero_hashes_index(0)
    ELSE IF position * Pow2(level) >= Len(lv)
         THEN zero_hashes_index(level)
         ELSE LET left == node(lv, level - 1, position * 2)
              IN  IF left = Trap THEN Trap
                  ELSE LET right == node(lv, level - 1, position * 2 + 1)
                       IN  IF right = Trap THEN Trap
                           ELSE hash_with_domain(left, right, "Merkle")

\* LocalMerkleTree::root
root(d, lv) == node(lv, d, 0)

\* sorted.sort_by_key(|(idx, _)| *idx): a stable sort on the cid.
RECURSIVE InsertByKey(_, _)
InsertByKey(x, s) ==
    IF s = <<>> THEN <<x>>
    ELSE IF s[Len(s)][1] <= x[1] THEN Append(s, x)
         ELSE Append(InsertByKey(x, SubSeq(s, 1, Len(s) - 1)), s[Len(s)])

RECURSIVE SortFrom(_, _, _)
SortFrom(input, i, acc) ==
    IF i > Len(input) THEN acc
    ELSE SortFrom(input, i + 1, InsertByKey(input[i], acc))

sort_by_key(input) == SortFrom(input, 1, <<>>)

\* The loop of append_leaves: every pair is pushed as soon as its cid has
\* passed assert_eq!, so a failing assertion leaves the pairs before it
\* in the tree.
RECURSIVE append_loop(_, _, _)
append_loop(lv, sorted, i) ==
    IF i > Len(sorted) THEN [leaves |-> lv, status |-> "ok"]
    ELSE IF sorted[i][1] # Len(lv) THEN [leaves |-> lv, status |-> "panic"]
         ELSE append_loop(Append(lv, sorted[i][2]), sorted, i + 1)

\* append_leaves without the sort: the batch is walked in the order given.
append_leaves_unsorted(lv, input) ==
    IF input = <<>> THEN [leaves |-> lv, status |-> "ok"]
    ELSE append_loop(lv, input, 1)

\* append_leaves that rebuilds the leaf sequence from the batch alone.
append_leaves_rebuild(lv, input) ==
    IF input = <<>> THEN [leaves |-> lv, status |-> "ok"]
    ELSE LET r == append_loop(lv, sort_by_key(input), 1)
         IN  [r EXCEPT !.leaves = SubSeq(r.leaves, Len(lv) + 1, Len(r.leaves))]

\* LocalMerkleTree::append_leaves
append_leaves(lv, input) ==
    IF input = <<>> THEN [leaves |-> lv, status |-> "ok"]
    ELSE append_loop(lv, sort_by_key(input), 1)

\* pos ^ 1
Xor1(pos) == IF pos % 2 = 0 THEN pos + 1 ELSE pos - 1

\* The path of one proof: the leaf, then the sibling at every level.
RECURSIVE proof_path(_, _, _, _, _)
proof_path(d, lv, level, pos, path) ==
    IF level = d THEN path
    ELSE LET sib == node(lv, level, Xor1(pos))
         IN  IF sib = Trap THEN Trap
             ELSE proof_path(d, lv, level + 1, pos \div 2, Append(path, sib))

\* The closure of build_proof_by_cids for one cid.
build_proof(d, lv, cid) ==
    IF cid > latest_cid(lv) THEN Trap
    ELSE LET leaf == node(lv, 0, cid)
             path == proof_path(d, lv, 0, cid, <<leaf>>)
         IN  IF path = Trap THEN Trap
             ELSE [leaf_index |-> cid, path |-> path]

\* LocalMerkleTree::build_proof_by_cids: a sequence of proofs, or a panic.
build_proof_by_cids(d, lv, cids) ==
    IF cids = <<>> THEN [status |-> "panic", proofs |-> <<>>]
    ELSE LET ps == [i \in 1..Len(cids) |-> build_proof(d, lv, cids[i])]
         IN  IF \E i \in 1..Len(cids) : ps[i] = Trap
             THEN [status |-> "panic", proofs |-> <<>>]
             ELSE [status |-> "ok", proofs |-> ps]

\* The loop of verify_proof: the value recomputed from the path.
RECURSIVE verify_walk(_, _, _, _, _)
verify_walk(d, path, level, pos, current) ==
    IF level = d THEN current
    ELSE LET sibling == path[level + 2]
             next == IF pos % 2 = 0
                     THEN hash_with_domain(current, sibling, "Merkle")
                     ELSE hash_with_domain(sibling, current, "Merkle")
         IN  verify_walk(d, path, level + 1, pos \div 2, next)

\* verify_proof that always takes the running value as the left child.
verify_proof_left(d, lv, proof) ==
    IF Len(proof.path) # d + 1 THEN [status |-> "ok", result |-> FALSE]
    ELSE LET current == verify_walk(d, proof.path, 0, 0, proof.path[1])
             r == root(d, lv)
         IN  IF r = Trap THEN [status |-> "panic", result |-> FALSE]
             ELSE [status |-> "ok", result |-> (current = r)]

\* LocalMerkleTree::verify_proof
verify_proof(d, lv, proof) ==
    IF Len(proof.path) # d + 1 THEN [status |-> "ok", result |-> FALSE]
    ELSE LET current == verify_walk(d, proof.path, 0, proof.leaf_index, proof.path[1])
             r == root(d, lv)
         IN  IF r = Trap THEN [status |-> "panic", result |-> FALSE]
             ELSE [status |-> "ok", result |-> (current = r)]

(***************************************************************************)
(* Inputs of the Merkle operations.                                        *)
(***************************************************************************)
\* Commitments: zero and a non-zero value.
LeafVals == {Zero, <<1>>}

\* Values a tampered path element may take: a leaf value or a hash.
TamperVals ==
    LeafVals \cup {hash_with_domain(Zero, Zero, "Merkle"),
                   hash_with_domain(<<1>>, Zero, "Merkle")}

DepthArgs == {<<>>} \cup {<<n>> : n \in 0..(TREE_DEPTH_DEFAULT + DepthSlack)}

\* The width of leaf_index (usize: 64 bits in the source, twice the default
\* depth); scaled with the depths of the model, and wider than each.
IndexBits == TREE_DEPTH_DEFAULT + DepthSlack + 1

SeqsUpTo(S, n) == UNION {[1..k -> S] : k \in 0..n}

\* Batches name cids from the last stored one to past the end of the tree.
BatchCids(lv) == {c \in (Len(lv) - 1)..(Len(lv) + MaxBatch - 1) : c >= 0}

Batches(lv) == SeqsUpTo(BatchCids(lv) \X LeafVals, MaxBatch)

CidLists(lv) == SeqsUpTo(0..(Len(lv) + 1), MaxCids)

\* leaf_index with bit k flipped.
FlipBit(n, k) ==
    IF (n \div Pow2(k)) % 2 = 0 THEN n + Pow2(k) ELSE n - Pow2(k)

\* The ways a caller may alter a proof before handing it to verify_proof:
\* not at all, one path element replaced by another value, one bit of
\* leaf_index flipped, the last path element dropped.
Tampers(proof) ==
    {<<"none", 0, Zero>>, <<"short", 0, Zero>>}
    \cup {<<"path", i, v>> : i \in 1..Len(proof.path), v \in TamperVals}
    \cup {<<"index", k, Zero>> : k \in 0..(IndexBits - 1)}

Tampered(proof, t) ==
    CASE t[1] = "none" -> proof
      [] t[1] = "short" ->
            [proof EXCEPT !.path = SubSeq(proof.path, 1, Len(proof.path) - 1)]
      [] t[1] = "path" -> [proof EXCEPT !.path[t[2]] = t[3]]
      [] t[1] = "index" -> [proof EXCEPT !.leaf_index = FlipBit(proof.leaf_index, t[2])]

(***************************************************************************)
(* The tree as a state machine.  A caller makes one call at a time: mres   *)
(* holds the call and its outcome until the caller has taken it (Return).  *)
(* A panic unwinds to a caller that still holds the tree.                  *)
(***************************************************************************)
Idle == mres.op \in {"new", "idle"}

MerkleInit ==
    /\ SyncIdle
    /\ wire = [kind |-> "none"]
    /\ dres = [op |-> "idle"]
    /\ \E arg \in DepthArgs :
          /\ depth = new_depth(arg)
          /\ mres = [op |-> "new", arg |-> arg]
    /\ leaves = <<>>
    /\ appendFailed = FALSE

AppendLeaves ==
    /\ Idle
    /\ \E input \in Batches(leaves) :
        LET r == append_leaves(leaves, input)
        IN  /\ Len(r.leaves) <= MaxLeaves
            /\ leaves' = r.leaves
            /\ mres' = [op |-> "append", input |-> input, status |-> r.status]
            /\ appendFailed' = (appendFailed \/ r.status = "panic")
            /\ UNCHANGED <<depth, memoVars, syncVars, fres, laterVars>>

Root ==
    /\ Idle
    /\ LET r == root(depth, leaves)
       IN  /\ mres' = [op |-> "root",
                       status |-> IF r = Trap THEN "panic" ELSE "ok",
                       result |-> r]
           /\ UNCHANGED <<depth, leaves, appendFailed, memoVars, syncVars, fres, laterVars>>

BuildProof ==
    /\ Idle
    /\ \E cids \in CidLists(leaves) :
        LET r == build_proof_by_cids(depth, leaves, cids)
        IN  /\ mres' = [op |-> "proof", cids |-> cids, status |-> r.status,
                        proofs |-> r.proofs]
            /\ UNCHANGED <<depth, leaves, appendFailed, memoVars, syncVars, fres, laterVars>>

\* verify_proof on a proof that build_proof_by_cids has just returned, as
\* returned or altered.
VerifyProof ==
    /\ mres.op = "proof"
    /\ \E i \in DOMAIN mres.proofs :
        \E t \in Tampers(mres.proofs[i]) :
           LET given == Tampered(mres.proofs[i], t)
               r == verify_proof(depth, leaves, given)
           IN  /\ given = mres.proofs[i] <=> t[1] = "none"
               /\ mres' = [op |-> "verify", cids |-> mres.cids,
                           built |-> mres.proofs[i],
                           tamper |-> t, given |-> given,
                           status |-> r.status, result |-> r.result]
               /\ UNCHANGED <<depth, leaves, appendFailed, memoVars, syncVars, fres, laterVars>>

Return ==
    /\ ~Idle
    /\ mres' = [op |-> "idle"]
    /\ UNCHANGED <<depth, leaves, appendFailed, memoVars, syncVars, fres, laterVars>>

MerkleNext == AppendLeaves \/ Root \/ BuildProof \/ VerifyProof \/ Return

MerkleSpec == MerkleInit /\ [][MerkleNext]_vars

(***************************************************************************)
(* ocash-crypto/babyjubjub.rs.  Fr is the prime field of FieldPrime        *)
(* elements, a field element is its canonical residue.  The curve is the   *)
(* source's a = -1 twisted-Edwards curve scaled to a small field that      *)
(* keeps its shape: p = 1 (mod 4), d a non-square, 8 * l points, and a     *)
(* base point of prime order l.                                            *)
(***************************************************************************)
\* p, the modulus of Fr (254 bits in the source)
FieldPrime == 29
\* l, the order of the prime subgroup
curve_order == 5
\* the number of scalar bits mul_point walks (256 in the source: two more
\* than the bits of p)
ScalarBits == 7
\* 0x80 in byte 31 of a compressed point: the bit above the bits of y
SignBit == 32

Fr == 0..(FieldPrime - 1)

FAdd(x, y) == (x + y) % FieldPrime
FSub(x, y) == (x - y + FieldPrime) % FieldPrime
FMul(x, y) == (x * y) % FieldPrime
FNeg(x) == (FieldPrime - x) % FieldPrime

\* Field::inverse: <<>> for None, <<i>> for Some(i)
inverse_table ==
    [x \in Fr |-> IF x = 0 THEN <<>> ELSE <<CHOOSE i \in Fr : FMul(i, x) = 1>>]

inverse(x) == inverse_table[x]

curve_a == FNeg(1)

curve_d == 27

base_point == <<2, 23>>

identity == <<0, 1>>

is_on_curve(x, y) ==
    LET x2 == FMul(x, x)
        y2 == FMul(y, y)
    IN  FAdd(FMul(curve_a, x2), y2) = FAdd(1, FMul(FMul(curve_d, x2), y2))

\* point_add: Trap when an inverse().unwrap() meets zero.
point_add(p1, p2) ==
    LET x1 == p1[1]
        y1 == p1[2]
        x2 == p2[1]
        y2 == p2[2]
        beta == FMul(x1, y2)
        gamma == FMul(y1, x2)
        delta == FMul(FSub(y1, FMul(curve_a, x1)), FAdd(x2, y2))
        dtau == FMul(curve_d, FMul(beta, gamma))
        ix == inverse(FAdd(1, dtau))
        iy == inverse(FSub(1, dtau))
    IN  IF x1 = 0 /\ y1 = 1 THEN p2
        ELSE IF x2 = 0 /\ y2 = 1 THEN p1
        ELSE IF ix = <<>> \/ iy = <<>> THEN Trap
        ELSE <<FMul(FAdd(beta, gamma), ix[1]),
               FMul(FSub(FAdd(delta, FMul(curve_a, beta)), gamma), iy[1])>>

\* The loop of mul_point from bit i on.
RECURSIVE mul_loop(_, _, _, _)
mul_loop(scalar, i, result, current) ==
    IF i = ScalarBits THEN result
    ELSE LET r == IF (scalar \div Pow2(i)) % 2 = 1
                  THEN point_add(result, current) ELSE result
         IN  IF r = Trap THEN Trap
             ELSE LET c == point_add(current, current)
                  IN  IF c = Trap THEN Trap
                      ELSE mul_loop(scalar, i + 1, r, c)

mul_point(base, scalar) ==
    IF scalar = 0 THEN identity ELSE mul_loop(scalar, 0, identity, base)

scalar_mult(scalar) == mul_point(base_point, scalar)

\* The byte-wise comparison from byte 31 down is the comparison of the two
\* canonical residues as integers.
is_lexicographically_largest(x) == x > FNeg(x)

Ok(v) == [ok |-> TRUE, val |-> v]
Err(e) == [ok |-> FALSE, err |-> e]

\* compress_point: the 32 bytes as a little-endian number, y with the sign
\* of x in the top bit.
compress_point(x, y) ==
    IF ~is_on_curve(x, y) THEN Err("PointNotOnCurve")
    ELSE Ok((y % SignBit) + (IF is_lexicographically_largest(x) THEN SignBit ELSE 0))

\* sqrt_field: <<>> for None; ark-ff returns one of the two roots.
sqrt_table ==
    [n \in Fr |-> IF n = 0 THEN <<0>>
                  ELSE IF \E r \in Fr : FMul(r, r) = n
                       THEN <<CHOOSE r \in Fr : FMul(r, r) = n>>
                       ELSE <<>>]

sqrt_field(n) == sqrt_table[n]

\* recover_x_coordinate that returns the root sqrt found, whatever the flag.
recover_x_coordinate_any_root(y, is_x_lex_largest) ==
    LET y2 == FMul(y, y)
        denom_inv == inverse(FSub(curve_a, FMul(curve_d, y2)))
    IN  IF denom_inv = <<>> THEN Err("NoSquareRoot")
        ELSE LET x == sqrt_field(FMul(FSub(1, y2), denom_inv[1]))
             IN  IF x = <<>> THEN Err("NoSquareRoot") ELSE Ok(x[1])

recover_x_coordinate(y, is_x_lex_largest) ==
    LET y2 == FMul(y, y)
        numerator == FSub(1, y2)
        denominator == FSub(curve_a, FMul(curve_d, y2))
        denom_inv == inverse(denominator)
    IN  IF denom_inv = <<>> THEN Err("NoSquareRoot")
        ELSE LET x == sqrt_field(FMul(numerator, denom_inv[1]))
             IN  IF x = <<>> THEN Err("NoSquareRoot")
                 ELSE IF is_lexicographically_largest(x[1]) = is_x_lex_largest
                      THEN Ok(x[1])
                      ELSE Ok(FNeg(x[1]))

\* decompress_point that takes the sign bit for a bit of y
decompress_point_keep_sign(compressed) ==
    LET is_x_lex_largest == (compressed \div SignBit) % 2 = 1
        y == compressed % FieldPrime
        x == recover_x_coordinate(y, is_x_lex_largest)
    IN  IF ~x.ok THEN x
        ELSE IF ~is_on_curve(x.val, y) THEN Err("PointNotOnCurve")
        ELSE Ok(<<x.val, y>>)

\* decompress_point: the bits of y are reduced mod p (from_le_bytes_mod_order).
decompress_point(compressed) ==
    LET is_x_lex_largest == (compressed \div SignBit) % 2 = 1
        y == (compressed % SignBit) % FieldPrime
        x == recover_x_coordinate(y, is_x_lex_largest)
    IN  IF ~x.ok THEN x
        ELSE IF ~is_on_curve(x.val, y) THEN Err("PointNotOnCurve")
        ELSE Ok(<<x.val, y>>)

\* Every value of a 32-byte compressed point.
CompressedVals == 0..(2 * SignBit - 1)

(***************************************************************************)
(* ocash-crypto/record.rs, keys.rs and memo.rs.  A byte string is kept as  *)
(* its length and the numbers its slots spell; the secret box              *)
(* (XSalsa20-Poly1305) and Keccak-256 are ideal: a box opens under the key *)
(* and nonce it was sealed with, if no byte of it was changed, and not     *)
(* otherwise; the nonce is injective in the two compressed keys.           *)
(***************************************************************************)
\* bytes of a compressed point
EPH_LEN == 32
\* bytes of the Poly1305 tag
MAC_LEN == 16
\* bytes of an encoded record
RECORD_LEN == 160
\* the values of one byte
ByteVals == 256

\* field_to_be_bytes: the 32 bytes, read as a big-endian number, are the
\* canonical residue.
field_to_be_bytes(f) == f % FieldPrime

\* be_bytes_to_field: from_le_bytes_mod_order of the reversed bytes.
be_bytes_to_field(n) == n % FieldPrime

\* record::encode
encode(ro) ==
    LET compressed == compress_point(ro.user_pk[1], ro.user_pk[2])
    IN  IF ~compressed.ok THEN compressed
        ELSE Ok([len |-> RECORD_LEN,
                 slots |-> <<field_to_be_bytes(ro.asset_id),
                             field_to_be_bytes(ro.asset_amount),
                             compressed.val,
                             field_to_be_bytes(ro.blinding_factor),
                             IF ro.is_frozen THEN 1 ELSE 0>>])

\* decode that reads the frozen flag off the byte before the last
decode_frozen_other_byte(data) ==
    IF data.len # RECORD_LEN THEN Err("Other")
    ELSE LET pk == decompress_point(data.slots[3])
         IN  IF ~pk.ok THEN pk
             ELSE Ok([asset_id |-> be_bytes_to_field(data.slots[1]),
                      asset_amount |-> be_bytes_to_field(data.slots[2]),
                      user_pk |-> pk.val,
                      blinding_factor |-> be_bytes_to_field(data.slots[4]),
                      is_frozen |-> ((data.slots[5] \div ByteVals) % ByteVals = 1)])

\* record::decode
decode(data) ==
    IF data.len # RECORD_LEN THEN Err("Other")
    ELSE LET pk == decompress_point(data.slots[3])
         IN  IF ~pk.ok THEN pk
             ELSE Ok([asset_id |-> be_bytes_to_field(data.slots[1]),
                      asset_amount |-> be_bytes_to_field(data.slots[2]),
                      user_pk |-> pk.val,
                      blinding_factor |-> be_bytes_to_field(data.slots[4]),
                      is_frozen |-> (data.slots[5] % ByteVals = 1)])

\* keys::bigint_mod_order: reduction by repeated subtraction.
RECURSIVE bigint_mod_order(_, _)
bigint_mod_order(a, m) == IF a >= m THEN bigint_mod_order(a - m, m) ELSE a

\* memo::random_scalar_mod_order, given the bytes the random source filled
\* in: reduced mod p, then mod l.
random_scalar_mod_order(bytes) ==
    LET val == bytes % FieldPrime
        reduced == bigint_mod_order(val, curve_order)
    IN  IF reduced < FieldPrime THEN reduced ELSE 1

\* memo_nonce: Keccak-256 of the two compressed keys, cut to 24 bytes.
memo_nonce(eph_pk, user_pk) ==
    LET eph_compressed == compress_point(eph_pk[1], eph_pk[2])
        user_compressed == compress_point(user_pk[1], user_pk[2])
    IN  IF ~eph_compressed.ok THEN eph_compressed
        ELSE IF ~user_compressed.ok THEN user_compressed
        ELSE Ok(<<eph_compressed.val, user_compressed.val>>)

\* XSalsa20Poly1305::encrypt
secretbox_seal(key, nonce, pt) ==
    [key |-> key, nonce |-> nonce, pt |-> pt, intact |-> TRUE]

\* XSalsa20Poly1305::decrypt
secretbox_open(key, nonce, ct) ==
    IF ct.intact /\ ct.key = key /\ ct.nonce = nonce THEN Ok(ct.pt) ELSE Err("aead")

\* create_memo from the ephemeral key on: the sealed, hex-rendered string.
seal_envelope(user_pk, eph_sk, encoded) ==
    LET eph_pk == scalar_mult(eph_sk)
        shared_point == mul_point(user_pk, eph_sk)
        shared_key == compress_point(shared_point[1], shared_point[2])
        nonce == memo_nonce(eph_pk, user_pk)
        eph_compressed == compress_point(eph_pk[1], eph_pk[2])
    IN  IF ~shared_key.ok THEN shared_key
        ELSE IF ~nonce.ok THEN nonce
        ELSE IF ~eph_compressed.ok THEN eph_compressed
        ELSE Ok([prefix |-> TRUE, hexok |-> TRUE,
                 len |-> EPH_LEN + encoded.len + MAC_LEN,
                 eph |-> eph_compressed.val,
                 ct |-> secretbox_seal(shared_key.val, nonce.val, encoded)])

\* memo::create_memo, given the ephemeral secret it drew.
create_memo(ro, eph_sk) ==
    LET encoded == encode(ro)
    IN  IF ~encoded.ok THEN encoded
        ELSE seal_envelope(ro.user_pk, eph_sk, encoded.val)

\* memo::decrypt_memo: Ok(<<>>) is Ok(None), Ok(<<ro>>) is Ok(Some(ro)).
decrypt_memo(secret_key, encoded) ==
    IF ~encoded.hexok THEN Err("InvalidHex")
    ELSE IF encoded.len < EPH_LEN + MAC_LEN THEN Ok(<<>>)
    ELSE LET eph_pk == decompress_point(encoded.eph)
         IN  IF ~eph_pk.ok THEN eph_pk
             ELSE LET bob_pk == scalar_mult(secret_key)
                      shared_point == mul_point(eph_pk.val, secret_key)
                      shared_key == compress_point(shared_point[1], shared_point[2])
                      nonce == memo_nonce(eph_pk.val, bob_pk)
                  IN  IF ~shared_key.ok THEN shared_key
                      ELSE IF ~nonce.ok THEN nonce
                      ELSE LET opened == secretbox_open(shared_key.val, nonce.val,
                                                         encoded.ct)
                           IN  IF opened.ok
                               THEN LET ro == decode(opened.val)
                                    IN  IF ro.ok THEN Ok(<<ro.val>>) ELSE ro
                               ELSE Ok(<<>>)

(***************************************************************************)
(* Inputs of the memo operations.                                          *)
(***************************************************************************)
\* Secret keys records are made out to: zero, one below l, one above l.
OwnerKeys == {0, 2, 11}

\* A point off the curve.
OffCurve == <<1, 1>>

Records ==
    [asset_id : {1},
     asset_amount : {0, FieldPrime - 1},
     user_pk : {scalar_mult(k) : k \in OwnerKeys} \cup {OffCurve},
     blinding_factor : {7},
     is_frozen : BOOLEAN]

\* What the random source may fill in.
RandomVals == 0..(Pow2(ScalarBits) - 1)

EphemeralSecrets == {random_scalar_mod_order(b) : b \in RandomVals}

\* Plaintexts a sender with other software may seal: no bytes at all, and
\* 160 bytes whose key slot does not decompress.
ForeignPlaintexts ==
    {[len |-> 0, slots |-> <<>>],
     [len |-> RECORD_LEN,
      slots |-> <<1, 0, CHOOSE c \in CompressedVals : ~decompress_point(c).ok, 7, 0>>]}

(***************************************************************************)
(* Memos as a state machine: a sender makes a memo, bytes of it may change *)
(* on the way, a wallet scanning memos tries its key on it.                *)
(***************************************************************************)
MerkleIdle ==
    /\ depth = 1
    /\ leaves = <<>>
    /\ mres = [op |-> "idle"]
    /\ appendFailed = FALSE

MemoInit ==
    /\ MerkleIdle
    /\ SyncIdle
    /\ wire = [kind |-> "none"]
    /\ dres = [op |-> "idle"]

CreateMemo ==
    /\ wire.kind = "none"
    /\ \E sk \in OwnerKeys, ro \in Records, eph_sk \in EphemeralSecrets :
          /\ ro.user_pk \in {scalar_mult(sk), OffCurve}
          /\ LET m == create_memo(ro, eph_sk)
             IN  wire' = IF m.ok
                         THEN [kind |-> "created", sk |-> sk, ro |-> ro,
                               corrupt |-> "none", memo |-> m.val, orig |-> m.val]
                         ELSE [kind |-> "failed", sk |-> sk, ro |-> ro, err |-> m.err]
    /\ UNCHANGED <<merkleVars, dres, syncVars, fres, laterVars>>

ForeignMemo ==
    /\ wire.kind = "none"
    /\ \E k \in OwnerKeys, eph_sk \in EphemeralSecrets, pt \in ForeignPlaintexts :
          wire' = [kind |-> "foreign", pk |-> scalar_mult(k),
                   memo |-> seal_envelope(scalar_mult(k), eph_sk, pt).val]
    /\ UNCHANGED <<merkleVars, dres, syncVars, fres, laterVars>>

CorruptMemo ==
    /\ wire.kind = "created"
    /\ wire.corrupt = "none"
    /\ dres.op = "idle"
    /\ \/ \E e \in CompressedVals \ {wire.memo.eph} :
             wire' = [wire EXCEPT !.corrupt = "eph", !.memo.eph = e]
       \/ wire' = [wire EXCEPT !.corrupt = "ct", !.memo.ct.intact = FALSE]
       \/ wire' = [wire EXCEPT !.corrupt = "short",
                               !.memo.len = EPH_LEN + MAC_LEN - 1]
       \/ wire' = [wire EXCEPT !.corrupt = "hex", !.memo.hexok = FALSE]
       \/ wire' = [wire EXCEPT !.corrupt = "prefix", !.memo.prefix = FALSE]
    /\ UNCHANGED <<merkleVars, dres, syncVars, fres, laterVars>>

DecryptMemo ==
    /\ wire.kind \in {"created", "foreign"}
    /\ dres.op = "idle"
    /\ \E sk \in Fr :
          dres' = [op |-> "decrypt", sk |-> sk, res |-> decrypt_memo(sk, wire.memo)]
    /\ UNCHANGED <<merkleVars, wire, syncVars, fres, laterVars>>

MemoReturn ==
    /\ dres.op = "decrypt"
    /\ dres' = [op |-> "idle"]
    /\ UNCHANGED <<merkleVars, wire, syncVars, fres, laterVars>>

MemoNext == CreateMemo \/ ForeignMemo \/ CorruptMemo \/ DecryptMemo \/ MemoReturn

MemoSpec == MemoInit /\ [][MemoNext]_vars

(***************************************************************************)
(* ocash-store/memory.rs and ocash-sync/lib.rs.  The entry service is the  *)
(* environment: a request fails, or is answered with any list of items.    *)
(***************************************************************************)
\* SyncEngine.chains: the chain ids, in the order they were configured
chains == <<1, 2>>

\* SyncConfig.page_size
page_size == 2

\* MemoryStore::get_sync_cursor
get_sync_cursor(cs, chain_id) ==
    IF chain_id \in DOMAIN cs THEN <<cs[chain_id]>> ELSE <<>>

\* Option::unwrap_or_default
unwrap_or_default(opt) == IF opt = <<>> THEN DefaultCursor ELSE opt[1]

\* add-assign that assigns
add_assign_count(n, count) == count

\* the check of the first item only
first_mismatch_head(items, memo) ==
    IF Len(items) > 0 /\ items[1].cid # memo THEN 1 ELSE 0

\* MemoryStore::set_sync_cursor
set_sync_cursor(cs, chain_id, c) ==
    [k \in DOMAIN cs \cup {chain_id} |-> IF k = chain_id THEN c ELSE cs[k]]

\* MemoryStore::upsert_utxos
RECURSIVE upsert_utxos(_, _)
upsert_utxos(store, new) ==
    IF new = <<>> THEN store
    ELSE LET utxo == Head(new)
             found == {i \in 1..Len(store) : store[i].commitment = utxo.commitment}
             next == IF found # {}
                     THEN LET i == CHOOSE j \in found : \A k \in found : j <= k
                          IN  [store EXCEPT ![i] = utxo]
                     ELSE Append(store, utxo)
         IN  upsert_utxos(next, Tail(new))

\* mark_spent that does not look at the chain of a record
mark_spent_any_chain(store, chain_id, nullifiers) ==
    LET hit(u) == /\ \E i \in 1..Len(nullifiers) : nullifiers[i] = u.nullifier
                  /\ ~u.is_spent
    IN  [utxos |-> [i \in 1..Len(store) |->
                       IF hit(store[i]) THEN [store[i] EXCEPT !.is_spent = TRUE]
                       ELSE store[i]],
         count |-> Cardinality({i \in 1..Len(store) : hit(store[i])})]

\* MemoryStore::mark_spent: the store after the call and the count returned
mark_spent(store, chain_id, nullifiers) ==
    LET hit(u) == /\ u.chain_id = chain_id
                  /\ \E i \in 1..Len(nullifiers) : nullifiers[i] = u.nullifier
                  /\ ~u.is_spent
    IN  [utxos |-> [i \in 1..Len(store) |->
                       IF hit(store[i]) THEN [store[i] EXCEPT !.is_spent = TRUE]
                       ELSE store[i]],
         count |-> Cardinality({i \in 1..Len(store) : hit(store[i])})]

\* MemoryStore::list_utxos; an absent filter of the query is <<>>
list_utxos(store, query) ==
    LET keep(u) ==
            /\ query.chain_id # <<>> => u.chain_id = query.chain_id[1]
            /\ query.asset_id # <<>> => u.asset_id = query.asset_id[1]
            /\ ~(query.unspent_only /\ u.is_spent)
    IN  SelectSeq(store, keep)

\* cursor.memo += count
add_assign(n, count) == n + count

\* The loop over a page in sync_memos: the index (from 1) of the first item
\* whose cid is not cursor.memo + i, 0 if there is none.
first_mismatch(items, memo) ==
    LET bad == {i \in 1..Len(items) : items[i].cid # memo + (i - 1)}
    IN  IF bad = {} THEN 0 ELSE CHOOSE i \in bad : \A j \in bad : i <= j

\* emit with a handler that puts what it is handed in front
emit_first(log, event) == <<event>> \o log

\* SyncEngine::emit, with a handler that keeps what it is handed
emit(log, event) == Append(log, event)

(***************************************************************************)
(* The sync engine as a state machine: one sync_once call at a time, a     *)
(* step per request to the entry service or the store.                     *)
(***************************************************************************)
CidVals == 0..MaxCursor

NullifierVals == {"n1", "n2"}

\* Replies to list_memos: a failure (transport, status, body), or a page.
\* The page is as long as the service makes it.
MemoReplies ==
    {Err("Other")} \cup {Ok(items) : items \in SeqsUpTo([cid : CidVals], page_size + 1)}

\* Replies to list_nullifiers_by_block.
NullifierReplies ==
    {Err("Other")}
        \cup {Ok(items) : items \in SeqsUpTo([nullifier : NullifierVals], page_size + 1)}

\* Records a wallet may hand to upsert_utxos.
UtxoRecords ==
    [chain_id : {chains[1]}, asset_id : {"a1"}, commitment : {"c1"},
     nullifier : {"n1"}, is_spent : {FALSE}]

chain_id == chains[chain_index]

\* sync_once returns: the locals are gone.
Returns(r) ==
    /\ pc' = "returned"
    /\ sync_result' = r
    /\ cursor' = DefaultCursor
    /\ total_downloaded' = 0

SyncInit ==
    /\ MerkleIdle
    /\ wire = [kind |-> "none"]
    /\ dres = [op |-> "idle"]
    /\ SyncIdle

UpsertUtxos ==
    /\ pc = "idle"
    /\ \E u \in UtxoRecords : utxos' = upsert_utxos(utxos, <<u>>)
    /\ UNCHANGED <<merkleVars, memoVars, fres, cursors, pc, chain_index, cursor,
                   total_downloaded, events, resp, sync_result, pass_start,
                   laterVars>>

SyncOnce ==
    /\ pc = "idle"
    /\ IF Len(chains) = 0
       THEN /\ chain_index' = 0
            /\ pc' = "returned"
            /\ sync_result' = [state |-> "Ok"]
       ELSE /\ chain_index' = 1
            /\ pc' = "sync_chain"
            /\ sync_result' = [state |-> "running"]
    /\ UNCHANGED <<merkleVars, memoVars, fres, cursors, utxos, cursor, total_downloaded,
                   events, resp, pass_start, laterVars>>

SyncChain ==
    /\ pc = "sync_chain"
    /\ events' = emit(events, [type |-> "Start", chain_id |-> chain_id])
    /\ pass_start' = get_sync_cursor(cursors, chain_id)
    /\ cursor' = unwrap_or_default(get_sync_cursor(cursors, chain_id))
    /\ total_downloaded' = 0
    /\ pc' = "sync_memos"
    /\ UNCHANGED <<merkleVars, memoVars, fres, cursors, utxos, chain_index, resp,
                   sync_result, laterVars>>

\* The test that ends the loops of sync_memos and sync_nullifiers: a page
\* shorter than the limit asked for is the last one.
last_page(count, limit) == count < limit

\* One turn of the loop of sync_memos, on the reply r to list_memos.  The
\* model takes the cursor no further than cap.
SyncMemosOn(r, cap) ==
    /\ resp' = [kind |-> "memos", offset |-> cursor.memo, reply |-> r]
    /\ IF ~r.ok
       THEN Returns([state |-> "Err", err |-> r.err]) /\ UNCHANGED events
       ELSE IF r.val = <<>>
       THEN /\ pc' = "sync_nullifiers"
            /\ total_downloaded' = 0
            /\ UNCHANGED <<cursor, events, sync_result>>
       ELSE IF first_mismatch(r.val, cursor.memo) # 0
       THEN Returns([state |-> "Err", err |-> "Other"]) /\ UNCHANGED events
       ELSE LET count == Len(r.val)
            IN  /\ add_assign(cursor.memo, count) <= cap
                /\ cursor' = [cursor EXCEPT !.memo = add_assign(@, count)]
                /\ events' = emit(events,
                                  [type |-> "Progress", chain_id |-> chain_id,
                                   resource |-> "memo",
                                   downloaded |-> total_downloaded + count])
                /\ IF last_page(count, page_size)
                   THEN pc' = "sync_nullifiers" /\ total_downloaded' = 0
                   ELSE pc' = pc /\ total_downloaded' = total_downloaded + count
                /\ UNCHANGED sync_result
    /\ UNCHANGED <<merkleVars, memoVars, fres, cursors, utxos, chain_index, pass_start,
                   laterVars>>

SyncMemos ==
    /\ pc = "sync_memos"
    /\ \E r \in MemoReplies : SyncMemosOn(r, MaxCursor)

\* One turn of the loop of sync_nullifiers, on the reply r to
\* list_nullifiers_by_block.  The model takes the cursor no further than cap.
SyncNullifiersOn(r, cap) ==
    /\ resp' = [kind |-> "nullifiers", offset |-> cursor.nullifier, reply |-> r]
    /\ IF ~r.ok
       THEN Returns([state |-> "Err", err |-> r.err]) /\ UNCHANGED <<events, utxos>>
       ELSE IF r.val = <<>>
       THEN /\ pc' = "persist"
            /\ total_downloaded' = 0
            /\ UNCHANGED <<cursor, events, sync_result, utxos>>
       ELSE LET count == Len(r.val)
                nullifier_hexes == [i \in 1..count |-> r.val[i].nullifier]
            IN  /\ add_assign(cursor.nullifier, count) <= cap
                /\ utxos' = mark_spent(utxos, chain_id, nullifier_hexes).utxos
                /\ cursor' = [cursor EXCEPT !.nullifier = add_assign(@, count)]
                /\ events' = emit(events,
                                  [type |-> "Progress", chain_id |-> chain_id,
                                   resource |-> "nullifier",
                                   downloaded |-> total_downloaded + count])
                /\ IF last_page(count, page_size)
                   THEN pc' = "persist" /\ total_downloaded' = 0
                   ELSE pc' = pc /\ total_downloaded' = total_downloaded + count
                /\ UNCHANGED sync_result
    /\ UNCHANGED <<merkleVars, memoVars, fres, cursors, chain_index, pass_start,
                   laterVars>>

SyncNullifiers ==
    /\ pc = "sync_nullifiers"
    /\ \E r \in NullifierReplies : SyncNullifiersOn(r, MaxCursor)

\* The end of sync_chain, and sync_once going on to the next chain.
Persist ==
    /\ pc = "persist"
    /\ cursors' = set_sync_cursor(cursors, chain_id, cursor)
    /\ events' = emit(events, [type |-> "Done", chain_id |-> chain_id,
                               cursor |-> cursor])
    /\ IF chain_index < Len(chains)
       THEN /\ chain_index' = chain_index + 1
            /\ pc' = "sync_chain"
            /\ UNCHANGED <<cursor, total_downloaded, sync_result>>
       ELSE Returns([state |-> "Ok"]) /\ UNCHANGED chain_index
    /\ UNCHANGED <<merkleVars, memoVars, fres, utxos, resp, pass_start, laterVars>>

\* The caller has looked at what sync_once returned and what the handler
\* was handed.
SyncReturn ==
    /\ pc = "returned"
    /\ pc' = "idle"
    /\ chain_index' = 0
    /\ events' = <<>>
    /\ resp' = [kind |-> "none"]
    /\ sync_result' = [state |-> "none"]
    /\ pass_start' = <<>>
    /\ UNCHANGED <<merkleVars, memoVars, fres, cursors, utxos, cursor, total_downloaded,
                   laterVars>>

SyncNext ==
    \/ UpsertUtxos
    \/ SyncOnce
    \/ SyncChain
    \/ SyncMemos
    \/ SyncNullifiers
    \/ Persist
    \/ SyncReturn

SyncSpec == SyncInit /\ [][SyncNext]_vars

(***************************************************************************)
(* poseidon2::hash_sequence_with_domain, commitment.rs and nullifier.rs.   *)
(* A field element that goes into the hash is the term <<n>>; a domain is  *)
(* known by its name.                                                      *)
(***************************************************************************)
\* poseidon2::hash_domain: injective on (a, b, domain)
hash_domain(a, b, domain) == <<a, b, domain>>

\* The loop of hash_sequence_with_domain from inputs[i] on (i from 1).
RECURSIVE absorb(_, _, _, _)
absorb(acc, inputs, i, domain) ==
    IF i > Len(inputs) THEN acc
    ELSE absorb(hash_domain(acc, inputs[i], domain), inputs, i + 1, domain)

\* hash_sequence_with_domain that absorbs inputs[0] twice when seeded
hash_sequence_reabsorb(inputs, domain, seed) ==
    IF inputs = <<>> THEN (IF seed = <<>> THEN Trap ELSE seed[1])
    ELSE IF Len(inputs) = 1 /\ seed = <<>> THEN hash_domain(Zero, inputs[1], domain)
    ELSE IF seed # <<>>
         THEN absorb(hash_domain(seed[1], inputs[1], domain), inputs, 1, domain)
         ELSE absorb(hash_domain(inputs[1], inputs[2], domain), inputs, 3, domain)

\* poseidon2::hash_sequence_with_domain.  The seed is <<>> for None and
\* <<s>> for Some(s); seed.expect panics on None.
hash_sequence_with_domain(inputs, domain, seed) ==
    IF inputs = <<>> THEN (IF seed = <<>> THEN Trap ELSE seed[1])
    ELSE IF Len(inputs) = 1 /\ seed = <<>> THEN hash_domain(Zero, inputs[1], domain)
    ELSE IF seed # <<>>
         THEN absorb(hash_domain(seed[1], inputs[1], domain), inputs, 2, domain)
         ELSE absorb(hash_domain(inputs[1], inputs[2], domain), inputs, 3, domain)

\* Fr::from_bigint([0, 0, 1, 0]): bit 128 of the amount
frozen_bit == 4

\* commitment that leaves the amount as it is
commitment_unflagged(user_pk_x, user_pk_y, blinding_factor, asset_id, asset_amount, is_frozen) ==
    hash_sequence_with_domain(
        <<<<user_pk_x>>, <<user_pk_y>>, <<blinding_factor>>, <<asset_id>>,
          <<asset_amount>>>>, "Record", <<>>)

\* commitment::commitment
commitment(user_pk_x, user_pk_y, blinding_factor, asset_id, asset_amount, is_frozen) ==
    LET amount == IF is_frozen THEN FAdd(asset_amount, frozen_bit) ELSE asset_amount
        inputs == <<<<user_pk_x>>, <<user_pk_y>>, <<blinding_factor>>, <<asset_id>>,
                    <<amount>>>>
    IN  hash_sequence_with_domain(inputs, "Record", <<>>)

\* commitment::compute
compute(ro) ==
    Ok(commitment(ro.user_pk[1], ro.user_pk[2], ro.blinding_factor, ro.asset_id,
                  ro.asset_amount, ro.is_frozen))

\* nullifier that takes every Some(freezer_pk) through the ECDH step
nullifier_always_ecdh(secret_key, commitment_fr, freezer_pk) ==
    IF freezer_pk = <<>>
    THEN hash_with_domain(<<secret_key>>, commitment_fr, "Nullifier")
    ELSE LET shared == mul_point(freezer_pk[1], secret_key)
         IN  IF shared = Trap THEN Trap
             ELSE hash_with_domain(
                      hash_with_domain(<<shared[1]>>, <<shared[2]>>, "KeyDerivation"),
                      commitment_fr, "Nullifier")

\* nullifier::nullifier.  freezer_pk is <<>> for None, <<pt>> for Some(pt).
nullifier(secret_key, commitment_fr, freezer_pk) ==
    LET is_default_freezer ==
            IF freezer_pk = <<>> THEN TRUE
            ELSE freezer_pk[1][1] = identity[1] /\ freezer_pk[1][2] = identity[2]
    IN  IF is_default_freezer
        THEN hash_with_domain(<<secret_key>>, commitment_fr, "Nullifier")
        ELSE LET shared == mul_point(freezer_pk[1], secret_key)
             IN  IF shared = Trap THEN Trap
                 ELSE hash_with_domain(
                          hash_with_domain(<<shared[1]>>, <<shared[2]>>,
                                           "KeyDerivation"),
                          commitment_fr, "Nullifier")

(***************************************************************************)
(* ocash-types: hex_to_field.  A string is the sequence of its characters. *)
(***************************************************************************)
\* the 32 bytes of a field element
FIELD_BYTES == 1

\* The value of a hex digit, <<>> for any other character.
hex_digit(c) ==
    CASE c = "0" -> <<0>>
      [] c = "1" -> <<1>>
      [] c = "a" -> <<10>>
      [] c = "A" -> <<10>>
      [] OTHER -> <<>>

\* str::strip_prefix("0x").unwrap_or(str)
strip_prefix_0x(str) ==
    IF Len(str) >= 2 /\ str[1] = "0" /\ str[2] = "x"
    THEN SubSeq(str, 3, Len(str)) ELSE str

\* hex::decode: an odd length or a character that is no hex digit fails.
hex_decode(str) ==
    IF Len(str) % 2 # 0 THEN Err("OddLength")
    ELSE IF \E i \in 1..Len(str) : hex_digit(str[i]) = <<>>
    THEN Err("InvalidHexCharacter")
    ELSE Ok([i \in 1..(Len(str) \div 2) |->
                16 * hex_digit(str[2 * i - 1])[1] + hex_digit(str[2 * i])[1]])

\* The number a byte sequence spells, first byte most significant, reduced
\* mod p (from_le_bytes_mod_order of the reversed bytes).
RECURSIVE be_value_mod_order(_)
be_value_mod_order(bytes) ==
    IF bytes = <<>> THEN 0
    ELSE (be_value_mod_order(SubSeq(bytes, 1, Len(bytes) - 1)) * ByteVals
              + bytes[Len(bytes)]) % FieldPrime

\* ocash_types::hex_to_field.  padded[offset..].copy_from_slice(&bytes)
\* panics when the two lengths differ, which is when bytes is longer than
\* padded.
hex_to_field(hex_str) ==
    LET bytes == hex_decode(strip_prefix_0x(hex_str))
    IN  IF ~bytes.ok THEN Err("InvalidHex")
        ELSE LET offset == IF FIELD_BYTES >= Len(bytes.val)
                           THEN FIELD_BYTES - Len(bytes.val) ELSE 0
             IN  IF FIELD_BYTES - offset # Len(bytes.val) THEN Trap
                 ELSE Ok(be_value_mod_order(bytes.val))

(***************************************************************************)
(* The functions of ocash-crypto and ocash-types as calls: a call is made  *)
(* with some arguments, and what it returned is looked at.                 *)
(***************************************************************************)
CryptoInit ==
    /\ MerkleIdle
    /\ wire = [kind |-> "none"]
    /\ dres = [op |-> "idle"]
    /\ SyncIdle

\* Every pair of field elements, on the curve or not.
Points == Fr \X Fr

CurvePoints == {pt \in Points : is_on_curve(pt[1], pt[2])}

\* Record openings handed to the codec: every point of the curve as the
\* key, and one point off it.
CodecRecords ==
    [asset_id : {0, 1, FieldPrime - 1},
     asset_amount : {0, 5, FieldPrime - 1},
     user_pk : CurvePoints \cup {OffCurve},
     blinding_factor : {0, 7},
     is_frozen : BOOLEAN]

\* record::decode(&record::encode(ro)?)
EncodeDecode ==
    /\ fres.op = "idle"
    /\ \E ro \in CodecRecords :
          LET encoded == encode(ro)
          IN  fres' = [op |-> "codec", ro |-> ro, encoded |-> encoded,
                       decoded |-> IF encoded.ok THEN decode(encoded.val)
                                   ELSE encoded]
    /\ UNCHANGED <<merkleVars, memoVars, syncVars, laterVars>>

\* decompress_point(&compress_point(x, y)?)
CompressDecompress ==
    /\ fres.op = "idle"
    /\ \E pt \in Points :
          LET compressed == compress_point(pt[1], pt[2])
          IN  fres' = [op |-> "compress", pt |-> pt, compressed |-> compressed,
                       decompressed |-> IF compressed.ok
                                        THEN decompress_point(compressed.val)
                                        ELSE compressed]
    /\ UNCHANGED <<merkleVars, memoVars, syncVars, laterVars>>

\* Record openings handed to commitment: every field element as amount.
CommitmentRecords ==
    [asset_id : {1, 2},
     asset_amount : Fr,
     user_pk : {identity, base_point},
     blinding_factor : {0, 7},
     is_frozen : BOOLEAN]

\* commitment::compute(ro)
Commitment ==
    /\ fres.op = "idle"
    /\ \E ro \in CommitmentRecords :
          fres' = [op |-> "commitment", ro |-> ro, out |-> compute(ro).val]
    /\ UNCHANGED <<merkleVars, memoVars, syncVars, laterVars>>

\* The freezer keys handed to nullifier: none, the identity, a point of the
\* prime subgroup, a point of the curve outside it, a point off the curve.
FreezerKeys == {<<>>, <<identity>>, <<base_point>>, <<<<0, FieldPrime - 1>>>>, <<OffCurve>>}

\* nullifier::nullifier(sk, commitment, freezer_pk)
Nullifier ==
    /\ fres.op = "idle"
    /\ \E sk \in Fr, c \in {<<0>>, <<5>>}, freezer_pk \in FreezerKeys :
          fres' = [op |-> "nullifier", sk |-> sk, commitment |-> c,
                   freezer_pk |-> freezer_pk, out |-> nullifier(sk, c, freezer_pk)]
    /\ UNCHANGED <<merkleVars, memoVars, syncVars, laterVars>>

\* The lists, domains and seeds handed to hash_sequence_with_domain.
SequenceInputs == SeqsUpTo({<<1>>, <<2>>}, MaxInputs)

SequenceDomains == {"Record", "Array"}

SequenceSeeds == {<<>>, <<<<1>>>>, <<<<3>>>>}

\* poseidon2::hash_sequence_with_domain(inputs, domain, seed)
HashSequence ==
    /\ fres.op = "idle"
    /\ \E inputs \in SequenceInputs, domain \in SequenceDomains, seed \in SequenceSeeds :
          LET out == hash_sequence_with_domain(inputs, domain, seed)
          IN  fres' = [op |-> "hash_sequence", inputs |-> inputs, domain |-> domain,
                       seed |-> seed,
                       status |-> IF out = Trap THEN "panic" ELSE "ok",
                       out |-> out]
    /\ UNCHANGED <<merkleVars, memoVars, syncVars, laterVars>>

HexChars == {"0", "1", "a", "A", "x"}

\* Strings of up to a prefix and one byte more than a field element holds.
HexStrings == SeqsUpTo(HexChars, 2 + 2 * (FIELD_BYTES + 1))

\* ocash_types::hex_to_field(hex_str)
HexToField ==
    /\ fres.op = "idle"
    /\ \E hex_str \in HexStrings :
          LET out == hex_to_field(hex_str)
          IN  fres' = [op |-> "hex_to_field", hex_str |-> hex_str,
                       status |-> IF out = Trap THEN "panic" ELSE "returned",
                       out |-> out]
    /\ UNCHANGED <<merkleVars, memoVars, syncVars, laterVars>>

\* Second operands of point_add: the identity, a point of the prime
\* subgroup, a point of the curve outside it, a point off the curve.
SecondOperands == {identity, base_point, <<0, FieldPrime - 1>>, OffCurve}

\* babyjubjub::point_add(p1, p2)
PointAdd ==
    /\ fres.op = "idle"
    /\ \E p1 \in Points, p2 \in SecondOperands :
          LET out == point_add(p1, p2)
          IN  fres' = [op |-> "point_add", p1 |-> p1, p2 |-> p2,
                       status |-> IF out = Trap THEN "panic" ELSE "returned",
                       out |-> out]
    /\ UNCHANGED <<merkleVars, memoVars, syncVars, laterVars>>

\* babyjubjub::mul_point(base, scalar)
MulPoint ==
    /\ fres.op = "idle"
    /\ \E base \in Points, scalar \in {0, 1, 2, FieldPrime - 1} :
          LET out == mul_point(base, scalar)
          IN  fres' = [op |-> "mul_point", base |-> base, scalar |-> scalar,
                       status |-> IF out = Trap THEN "panic" ELSE "returned",
                       out |-> out]
    /\ UNCHANGED <<merkleVars, memoVars, syncVars, laterVars>>

\* memo::random_scalar_mod_order(), with what the random source filled in
RandomScalar ==
    /\ fres.op = "idle"
    /\ \E bytes \in RandomVals :
          fres' = [op |-> "random_scalar", bytes |-> bytes,
                   out |-> random_scalar_mod_order(bytes)]
    /\ UNCHANGED <<merkleVars, memoVars, syncVars, laterVars>>

CryptoReturn ==
    /\ fres.op # "idle"
    /\ fres' = [op |-> "idle"]
    /\ UNCHANGED <<merkleVars, memoVars, syncVars, laterVars>>

CryptoNext ==
    \/ EncodeDecode
    \/ CompressDecompress
    \/ Commitment
    \/ Nullifier
    \/ HashSequence
    \/ HexToField
    \/ PointAdd
    \/ MulPoint
    \/ RandomScalar
    \/ CryptoReturn

CryptoSpec == CryptoInit /\ [][CryptoNext]_vars

(***************************************************************************)
(* ocash-store/memory.rs on its own: a wallet calling the store directly.  *)
(* sres holds the call and what it returned until the caller has taken it  *)
(* (StoreReturn); a mark_spent call may be followed at once by another.    *)
(***************************************************************************)
\* Records a caller may hand to upsert_utxos.
StoreRecords ==
    [chain_id : {chains[1], chains[2]}, asset_id : {"a1"},
     commitment : {"c1", "c2"}, nullifier : NullifierVals, is_spent : BOOLEAN]

\* Queries a caller may hand to list_utxos.
StoreQueries ==
    [chain_id : {<<>>, <<chains[1]>>, <<chains[2]>>},
     asset_id : {<<>>, <<"a1">>, <<"a2">>},
     unspent_only : BOOLEAN]

\* Cursors a caller may hand to set_sync_cursor.
StoreCursors == [memo : 0..1, nullifier : {0}, merkle : {0}]

StoreInit ==
    /\ MerkleIdle
    /\ wire = [kind |-> "none"]
    /\ dres = [op |-> "idle"]
    /\ SyncIdle

StoreUpsertUtxos ==
    /\ sres.op = "idle"
    /\ \E batch \in SeqsUpTo(StoreRecords, MaxUpsert) :
          /\ utxos' = upsert_utxos(utxos, batch)
          /\ sres' = [op |-> "upsert_utxos", utxos |-> batch]
    /\ UNCHANGED <<merkleVars, memoVars, fres, cursors, pc, chain_index, cursor,
                   total_downloaded, events, resp, sync_result, pass_start,
                   relayerVars, plannerVars, indexer, passes>>

StoreMarkSpent ==
    /\ sres.op \in {"idle", "mark_spent"}
    /\ \E id \in {chains[1], chains[2]}, nullifiers \in SeqsUpTo(NullifierVals, 2) :
          LET r == mark_spent(utxos, id, nullifiers)
          IN  /\ utxos' = r.utxos
              /\ sres' = [op |-> "mark_spent", chain_id |-> id,
                          nullifiers |-> nullifiers, count |-> r.count]
    /\ UNCHANGED <<merkleVars, memoVars, fres, cursors, pc, chain_index, cursor,
                   total_downloaded, events, resp, sync_result, pass_start,
                   relayerVars, plannerVars, indexer, passes>>

StoreListUtxos ==
    /\ sres.op = "idle"
    /\ \E query \in StoreQueries :
          sres' = [op |-> "list_utxos", query |-> query,
                   out |-> list_utxos(utxos, query)]
    /\ UNCHANGED <<merkleVars, memoVars, syncVars, fres, relayerVars, plannerVars,
                   indexer, passes>>

StoreSetSyncCursor ==
    /\ sres.op = "idle"
    /\ \E c \in StoreCursors :
          /\ cursors' = set_sync_cursor(cursors, chains[1], c)
          /\ sres' = [op |-> "set_sync_cursor", chain_id |-> chains[1], cursor |-> c]
    /\ UNCHANGED <<merkleVars, memoVars, fres, utxos, pc, chain_index, cursor,
                   total_downloaded, events, resp, sync_result, pass_start,
                   relayerVars, plannerVars, indexer, passes>>

StoreReturn ==
    /\ sres.op # "idle"
    /\ sres' = [op |-> "idle"]
    /\ UNCHANGED <<merkleVars, memoVars, syncVars, fres, relayerVars, plannerVars,
                   indexer, passes>>

StoreNext ==
    \/ StoreUpsertUtxos
    \/ StoreMarkSpent
    \/ StoreListUtxos
    \/ StoreSetSyncCursor
    \/ StoreReturn

StoreSpec == StoreInit /\ [][StoreNext]_vars

(***************************************************************************)
(* ocash-tx/relayer_client.rs: polling the relayer for the chain tx hash.  *)
(* The relayer is the environment: each GET fails, or is answered with a   *)
(* status and a body.                                                      *)
(***************************************************************************)
\* What a GET /api/v1/txhash may come to.
TxHashReplies ==
    {[kind |-> "failed"], [kind |-> "status"], [kind |-> "unparsable"],
     [kind |-> "data", data |-> <<>>]}
        \cup {[kind |-> "data", data |-> <<h>>] : h \in {"t1", "t2"}}

\* RelayerClient::get_tx_hash, given what the request came to
get_tx_hash(reply) ==
    CASE reply.kind = "failed" -> Err("Other")
      [] reply.kind = "status" -> Ok(<<>>)
      [] reply.kind = "unparsable" -> Err("Other")
      [] reply.kind = "data" -> Ok(reply.data)

\* a sleep after every attempt
sleep_after_every_attempt(a, max_attempts) == TRUE

\* wait_for_tx_hash: if attempt + 1 < max_attempts
sleep_between(a, max_attempts) == a + 1 < max_attempts

\* wait_for_tx_hash returns.
WaitReturns(r) ==
    /\ wpc' = "returned"
    /\ wresult' = r
    /\ attempt' = 0

\* The head of `for attempt in 0..max_attempts`, reached with the next value.
ForAttempt(a, max_attempts) ==
    IF a < max_attempts
    THEN /\ wpc' = "poll"
         /\ attempt' = a
         /\ UNCHANGED wresult
    ELSE WaitReturns(Err("Other"))

RelayerInit ==
    /\ MerkleIdle
    /\ wire = [kind |-> "none"]
    /\ dres = [op |-> "idle"]
    /\ SyncIdle

WaitForTxHash ==
    /\ wpc = "idle"
    /\ \E max_attempts \in 0..MaxAttempts, poll_interval_ms \in {0, 1000} :
          /\ wcall' = [op |-> "wait_for_tx_hash", max_attempts |-> max_attempts,
                       poll_interval_ms |-> poll_interval_ms]
          /\ ForAttempt(0, max_attempts)
    /\ UNCHANGED <<merkleVars, memoVars, syncVars, fres, storeVars, plannerVars,
                   indexer, passes, polls, sleeps>>

\* One get_tx_hash of the loop, and what the loop does with its result.
PollTxHash ==
    /\ wpc = "poll"
    /\ \E reply \in TxHashReplies :
          LET r == get_tx_hash(reply)
          IN  /\ polls' = Append(polls, reply)
              /\ IF ~r.ok THEN WaitReturns(r)
                 ELSE IF r.val # <<>> THEN WaitReturns(Ok(r.val[1]))
                 ELSE IF sleep_between(attempt, wcall.max_attempts)
                 THEN wpc' = "sleep" /\ UNCHANGED <<attempt, wresult>>
                 ELSE ForAttempt(attempt + 1, wcall.max_attempts)
    /\ UNCHANGED <<merkleVars, memoVars, syncVars, fres, storeVars, plannerVars,
                   indexer, passes, wcall, sleeps>>

\* tokio::time::sleep(poll_interval_ms) has elapsed.
Sleep ==
    /\ wpc = "sleep"
    /\ sleeps' = Append(sleeps, [after |-> Len(polls), ms |-> wcall.poll_interval_ms])
    /\ ForAttempt(attempt + 1, wcall.max_attempts)
    /\ UNCHANGED <<merkleVars, memoVars, syncVars, fres, storeVars, plannerVars,
                   indexer, passes, wcall, polls>>

\* The caller has taken what wait_for_tx_hash returned.
WaitReturn ==
    /\ wpc = "returned"
    /\ wpc' = "idle"
    /\ wcall' = [op |-> "idle"]
    /\ polls' = <<>>
    /\ sleeps' = <<>>
    /\ wresult' = [state |-> "none"]
    /\ UNCHANGED <<merkleVars, memoVars, syncVars, fres, storeVars, plannerVars,
                   indexer, passes, attempt>>

RelayerNext == WaitForTxHash \/ PollTxHash \/ Sleep \/ WaitReturn

RelayerSpec == RelayerInit /\ [][RelayerNext]_vars

(***************************************************************************)
(* ocash-planner: coin selection.  An amount is what u128::from_str_radix  *)
(* makes of the hex string: <<n>>, or <<>> for a string it rejects.  u128  *)
(* is scaled down to the values 0..U128_MAX.  A sum past U128_MAX panics   *)
(* in a build with overflow checks and wraps in one without.               *)
(***************************************************************************)
\* u128::MAX
U128_MAX == 7

\* .unwrap_or(0) on a parsed amount
unwrap_or_0(parsed) == IF parsed = <<>> THEN 0 ELSE parsed[1]

\* The value the sort and the loop read off a record.
val_of(utxo) == unwrap_or_0(utxo.amount)

\* Vec::sort_by with b_val.cmp(&a_val): stable, descending by value.
\* One record put in its place in a sorted list.
insert_descending(sorted, utxo) ==
    LET before == {i \in 1..Len(sorted) : val_of(sorted[i]) >= val_of(utxo)}
        n == Cardinality(before)
    IN  SubSeq(sorted, 1, n) \o <<utxo>> \o SubSeq(sorted, n + 1, Len(sorted))

RECURSIVE sort_descending(_, _)
sort_descending(sorted, rest) ==
    IF rest = <<>> THEN sorted
    ELSE sort_descending(insert_descending(sorted, Head(rest)), Tail(rest))

\* sum += val on u128: the new sum, or the panic of a build that checks
add_u128(sum, val, overflow_checks) ==
    IF sum + val <= U128_MAX THEN Ok(sum + val)
    ELSE IF overflow_checks THEN Err("overflow")
    ELSE Ok((sum + val) % (U128_MAX + 1))

\* The loop over sorted.iter().take(max_inputs), from index i on.
RECURSIVE select_loop(_, _, _, _, _, _, _)
select_loop(sorted, i, n, selected, sum, required_val, overflow_checks) ==
    IF i > n THEN [selected |-> selected, sum |-> sum]
    ELSE LET next == add_u128(sum, val_of(sorted[i]), overflow_checks)
         IN  IF ~next.ok THEN Trap
             ELSE IF next.val >= required_val
             THEN [selected |-> Append(selected, sorted[i]), sum |-> next.val]
             ELSE select_loop(sorted, i + 1, n, Append(selected, sorted[i]),
                              next.val, required_val, overflow_checks)

\* select_transfer_inputs; the sum is returned as its value
select_transfer_inputs(list, required, max_inputs, overflow_checks) ==
    LET sorted == sort_descending(<<>>, list)
        n == IF max_inputs < Len(sorted) THEN max_inputs ELSE Len(sorted)
    IN  select_loop(sorted, 1, n, <<>>, 0, unwrap_or_0(required), overflow_checks)

\* Parsed amounts: every u128, and the string that does not parse.
Amounts == {<<>>} \cup {<<n>> : n \in 0..U128_MAX}

\* UTXO lists: the record at index i has commitment i.
UtxoLists ==
    UNION {{[i \in 1..k |-> [commitment |-> i, amount |-> amounts[i]]] :
               amounts \in [1..k -> Amounts]} : k \in 0..MaxUtxos}

PlannerInit ==
    /\ MerkleIdle
    /\ wire = [kind |-> "none"]
    /\ dres = [op |-> "idle"]
    /\ SyncIdle

SelectTransferInputs ==
    /\ plan.op = "idle"
    /\ \E list \in UtxoLists, required \in Amounts, max_inputs \in 0..MaxUtxos,
          overflow_checks \in BOOLEAN :
          LET out == select_transfer_inputs(list, required, max_inputs,
                                            overflow_checks)
          IN  plan' = [op |-> "select_transfer_inputs", utxos |-> list,
                       required |-> required, max_inputs |-> max_inputs,
                       status |-> IF out = Trap THEN "panic" ELSE "returned",
                       out |-> out]
    /\ UNCHANGED <<merkleVars, memoVars, syncVars, fres, storeVars, relayerVars,
                   indexer, passes>>

PlannerReturn ==
    /\ plan.op # "idle"
    /\ plan' = [op |-> "idle"]
    /\ UNCHANGED <<merkleVars, memoVars, syncVars, fres, storeVars, relayerVars,
                   indexer, passes>>

PlannerNext == SelectTransferInputs \/ PlannerReturn

PlannerSpec == PlannerInit /\ [][PlannerNext]_vars

(***************************************************************************)
(* The sync engine against an entry service that holds, for every chain, a *)
(* fixed sequence of memos (cids 0..memos-1) and of nullifiers, answers    *)
(* every request, and serves from the offset asked for.  The engine is     *)
(* scheduled whenever a reply has arrived (weak fairness of its steps).    *)
(***************************************************************************)
ChainIdSet == {chains[k] : k \in 1..Len(chains)}

\* What the service may hold for the chains, and whether it fills every
\* page up to the limit of the request.
Indexers ==
    [fills : BOOLEAN,
     seqs : [ChainIdSet -> [memos : 0..MaxServed, nullifiers : 0..MaxServed]]]

\* The nullifier at index i of the service's sequence.
nullifier_at(i) == IF i % 2 = 0 THEN "n1" ELSE "n2"

\* How many items a page may hold when `remaining` items lie at and after
\* the offset and the limit is page_size: at most page_size of them and at
\* least one if there is one; as many as there are, up to the limit, when
\* the service fills its pages.
PageLengths(fills, remaining) ==
    LET full == IF remaining < page_size THEN remaining ELSE page_size
    IN  IF remaining <= 0 THEN {0}
        ELSE IF fills THEN {full}
        ELSE 1..full

\* The reply to list_memos(chain_id, offset, page_size) with n items.
memo_page(offset, n) == Ok([i \in 1..n |-> [cid |-> offset + i - 1]])

\* The reply to list_nullifiers_by_block(chain_id, offset, page_size) with
\* n items.
nullifier_page(offset, n) ==
    Ok([i \in 1..n |-> [nullifier |-> nullifier_at(offset + i - 1)]])

\* The cursors a store may hold for the chains before the pass: not ahead
\* of the service.
StartCursors(ix) ==
    {cs \in [ChainIdSet -> [memo : 0..MaxServed, nullifier : 0..MaxServed,
                            merkle : {0}]] :
        \A id \in ChainIdSet :
           /\ cs[id].memo <= ix.seqs[id].memos
           /\ cs[id].nullifier <= ix.seqs[id].nullifiers}

\* A store holds a cursor for every chain, or for those with a cursor that
\* is not the default one.
CatchUpInit ==
    /\ MerkleIdle
    /\ wire = [kind |-> "none"]
    /\ dres = [op |-> "idle"]
    /\ fres = [op |-> "idle"]
    /\ sres = [op |-> "idle"]
    /\ wcall = [op |-> "idle"]
    /\ wpc = "idle"
    /\ attempt = 0
    /\ polls = <<>>
    /\ sleeps = <<>>
    /\ wresult = [state |-> "none"]
    /\ plan = [op |-> "idle"]
    /\ passes = <<>>
    /\ indexer \in Indexers
    /\ \E cs \in StartCursors(indexer) :
          \E stored \in {ChainIdSet, {id \in ChainIdSet : cs[id] # DefaultCursor}} :
             cursors = [id \in stored |-> cs[id]]
    /\ utxos = <<>>
    /\ pc = "idle"
    /\ chain_index = 0
    /\ cursor = DefaultCursor
    /\ total_downloaded = 0
    /\ events = <<>>
    /\ resp = [kind |-> "none"]
    /\ sync_result = [state |-> "none"]
    /\ pass_start = <<>>

\* A turn of the loop of sync_memos, the service serving a page.
ServedMemos ==
    /\ pc = "sync_memos"
    /\ \E n \in PageLengths(indexer.fills,
                            indexer.seqs[chain_id].memos - cursor.memo) :
          SyncMemosOn(memo_page(cursor.memo, n), MaxServed)

\* A turn of the loop of sync_nullifiers, the service serving a page.
ServedNullifiers ==
    /\ pc = "sync_nullifiers"
    /\ \E n \in PageLengths(indexer.fills,
                            indexer.seqs[chain_id].nullifiers - cursor.nullifier) :
          SyncNullifiersOn(nullifier_page(cursor.nullifier, n), MaxServed)

CatchUpNext ==
    \/ SyncOnce
    \/ SyncChain
    \/ ServedMemos
    \/ ServedNullifiers
    \/ Persist
    \/ SyncReturn

CatchUpSpec == CatchUpInit /\ [][CatchUpNext]_vars /\ WF_vars(CatchUpNext)

(***************************************************************************)
(* Two sync_once calls under way at once on one store and one chain: the   *)
(* calls are futures polled in turn, each giving way at its requests to    *)
(* the entry service.  The service is honest, fills its pages, and its     *)
(* sequences grow while the passes run.                                     *)
(***************************************************************************)
PassIds == {1, 2}

\* the chain both passes sync
SharedChain == chains[1]

PassIdle == [pc |-> "idle", cursor |-> DefaultCursor, result |-> "none"]

\* what the two-pass specification leaves alone
notInPasses ==
    <<merkleVars, memoVars, fres, pc, chain_index, cursor, total_downloaded,
      events, resp, sync_result, pass_start, storeVars, relayerVars, plannerVars>>

TwoPassInit ==
    /\ MerkleIdle
    /\ wire = [kind |-> "none"]
    /\ dres = [op |-> "idle"]
    /\ fres = [op |-> "idle"]
    /\ sres = [op |-> "idle"]
    /\ wcall = [op |-> "idle"]
    /\ wpc = "idle"
    /\ attempt = 0
    /\ polls = <<>>
    /\ sleeps = <<>>
    /\ wresult = [state |-> "none"]
    /\ plan = [op |-> "idle"]
    /\ cursors = <<>>
    /\ utxos = <<>>
    /\ pc = "idle"
    /\ chain_index = 0
    /\ cursor = DefaultCursor
    /\ total_downloaded = 0
    /\ events = <<>>
    /\ resp = [kind |-> "none"]
    /\ sync_result = [state |-> "none"]
    /\ pass_start = <<>>
    /\ indexer = [fills |-> TRUE,
                  seqs |-> [id \in ChainIdSet |-> [memos |-> 0, nullifiers |-> 0]]]
    /\ passes = [p \in PassIds |-> PassIdle]

\* The chain gets a memo or a nullifier more.
IndexerGrows ==
    /\ \E resource \in {"memos", "nullifiers"} :
          /\ indexer.seqs[SharedChain][resource] < MaxServed
          /\ indexer' = [indexer EXCEPT !.seqs[SharedChain][resource] = @ + 1]
    /\ UNCHANGED <<notInPasses, cursors, utxos, passes>>

\* sync_once to the first request of sync_chain: the stored cursor is read.
PassStart(p) ==
    /\ passes[p].pc = "idle"
    /\ passes' = [passes EXCEPT ![p] =
                     [pc |-> "sync_memos",
                      cursor |-> unwrap_or_default(get_sync_cursor(cursors, SharedChain)),
                      result |-> "running"]]
    /\ UNCHANGED <<notInPasses, cursors, utxos, indexer>>

\* A turn of the loop of sync_memos of pass p.
PassMemos(p) ==
    LET c == passes[p].cursor
    IN  /\ passes[p].pc = "sync_memos"
        /\ \E r \in {Err("Other")}
                    \cup {memo_page(c.memo, n) :
                            n \in PageLengths(indexer.fills,
                                              indexer.seqs[SharedChain].memos - c.memo)} :
              passes' = [passes EXCEPT ![p] =
                  IF ~r.ok
                  THEN [pc |-> "returned", cursor |-> DefaultCursor, result |-> "Err"]
                  ELSE IF r.val = <<>>
                  THEN [@ EXCEPT !.pc = "sync_nullifiers"]
                  ELSE IF first_mismatch(r.val, c.memo) # 0
                  THEN [pc |-> "returned", cursor |-> DefaultCursor, result |-> "Err"]
                  ELSE [@ EXCEPT !.cursor.memo = add_assign(@, Len(r.val)),
                                 !.pc = IF last_page(Len(r.val), page_size)
                                        THEN "sync_nullifiers" ELSE "sync_memos"]]
        /\ UNCHANGED <<notInPasses, cursors, utxos, indexer>>

\* A turn of the loop of sync_nullifiers of pass p.
PassNullifiers(p) ==
    LET c == passes[p].cursor
    IN  /\ passes[p].pc = "sync_nullifiers"
        /\ \E r \in {Err("Other")}
                    \cup {nullifier_page(c.nullifier, n) :
                            n \in PageLengths(indexer.fills,
                                              indexer.seqs[SharedChain].nullifiers
                                                  - c.nullifier)} :
              IF ~r.ok
              THEN /\ passes' = [passes EXCEPT ![p] =
                          [pc |-> "returned", cursor |-> DefaultCursor, result |-> "Err"]]
                   /\ UNCHANGED utxos
              ELSE IF r.val = <<>>
              THEN /\ passes' = [passes EXCEPT ![p].pc = "persist"]
                   /\ UNCHANGED utxos
              ELSE LET count == Len(r.val)
                       nullifier_hexes == [i \in 1..count |-> r.val[i].nullifier]
                   IN  /\ utxos' = mark_spent(utxos, SharedChain, nullifier_hexes).utxos
                       /\ passes' = [passes EXCEPT ![p] =
                              [@ EXCEPT !.cursor.nullifier = add_assign(@, count),
                                        !.pc = IF last_page(count, page_size)
                                               THEN "persist" ELSE "sync_nullifiers"]]
        /\ UNCHANGED <<notInPasses, cursors, indexer>>

\* The end of sync_chain of pass p: its cursor goes to the store.
PassPersist(p) ==
    /\ passes[p].pc = "persist"
    /\ cursors' = set_sync_cursor(cursors, SharedChain, passes[p].cursor)
    /\ passes' = [passes EXCEPT ![p] =
                     [pc |-> "returned", cursor |-> passes[p].cursor, result |-> "Ok"]]
    /\ UNCHANGED <<notInPasses, utxos, indexer>>

\* The caller has looked at what pass p returned.
PassReturn(p) ==
    /\ passes[p].pc = "returned"
    /\ passes' = [passes EXCEPT ![p] = PassIdle]
    /\ UNCHANGED <<notInPasses, cursors, utxos, indexer>>

TwoPassNext ==
    \/ IndexerGrows
    \/ \E p \in PassIds :
          \/ PassStart(p)
          \/ PassMemos(p)
          \/ PassNullifiers(p)
          \/ PassPersist(p)
          \/ PassReturn(p)

TwoPassSpec == TwoPassInit /\ [][TwoPassNext]_vars

(***************************************************************************)
(* Claims about the Merkle accumulator.                                    *)
(***************************************************************************)
\* What the caller holds is a verify_proof outcome for the proof of one
\* stored leaf, built on this tree state by build_proof_by_cids([cid]).
VerifiedStoredLeaf ==
    /\ mres.op = "verify"
    /\ Len(mres.cids) = 1
    /\ mres.built.leaf_index < leaf_count(leaves)

\* C1: after successful append_leaves calls only, the proof that
\* build_proof_by_cids([cid]) returns for a cid < leaf_count is accepted by
\* verify_proof on the same tree state.
C1_BuiltProofVerifies ==
    (VerifiedStoredLeaf /\ ~appendFailed /\ mres.tamper[1] = "none")
        => (mres.status = "ok" /\ mres.result = TRUE)

\* The plain recursive value of the subtree at (level, position): every slot
\* at or past leaf_count holds zero.
RECURSIVE Subtree(_, _, _)
Subtree(lv, level, position) ==
    IF level = 0
    THEN IF position < Len(lv) THEN lv[position + 1] ELSE Zero
    ELSE hash_with_domain(Subtree(lv, level - 1, 2 * position),
                          Subtree(lv, level - 1, 2 * position + 1), "Merkle")

\* C2 as stated: verify_proof rejects the proof of an appended cid once any
\* one bit of it (of a path element, or of leaf_index) is flipped.
C2_AnyFlipRejected ==
    (VerifiedStoredLeaf /\ mres.tamper[1] \in {"path", "index"})
        => (mres.status = "ok" /\ mres.result = FALSE)

\* The proof handed to verify_proof was altered from one that verify_proof
\* accepts as built.
TamperedValidProof ==
    /\ VerifiedStoredLeaf
    /\ mres.tamper[1] \in {"path", "index"}
    /\ verify_proof(depth, leaves, mres.built).result

\* C2 amended: for a proof that verify_proof accepts as built, an altered
\* path element is always rejected; leaf_index with bit k flipped is
\* rejected exactly when k < depth and the two subtrees that meet at level k
\* of the path differ.
C2_FlipRejectedWhenItMatters ==
    TamperedValidProof =>
        LET k == mres.tamper[2]
            pos == mres.built.leaf_index \div Pow2(k)
            matters ==
                \/ mres.tamper[1] = "path"
                \/ /\ k < depth
                   /\ Subtree(leaves, k, pos) # Subtree(leaves, k, Xor1(pos))
        IN  /\ mres.status = "ok"
            /\ mres.result = ~matters

\* C2 witness: a flipped leaf_index bit below the depth, rejected.
C2_Witness ==
    /\ TamperedValidProof
    /\ mres.tamper[1] = "index"
    /\ mres.tamper[2] < depth
    /\ mres.result = FALSE
    /\ Len(leaves) >= 2

\* C1 case reached: a tree filled past 2^depth slots by successful appends.
C1_Overfull ==
    /\ VerifiedStoredLeaf /\ ~appendFailed /\ mres.tamper[1] = "none"
    /\ leaf_count(leaves) > Pow2(depth)

\* C3: a non-empty batch is accepted exactly when its cids are, in some
\* order, leaf_count, leaf_count + 1, ..., each once; an accepted batch grows
\* leaf_count by its size and stores at each cid the commitment given with
\* it; every other batch is a fatal failure.
C3_AppendContract ==
    [][(mres'.op = "append" /\ mres'.input # <<>>) =>
        LET input == mres'.input
            n == Len(input)
            contiguous ==
                {input[i][1] : i \in 1..n} =
                    leaf_count(leaves)..(leaf_count(leaves) + n - 1)
        IN  /\ mres'.status = (IF contiguous THEN "ok" ELSE "panic")
            /\ contiguous =>
                  /\ leaf_count(leaves') = leaf_count(leaves) + n
                  /\ \A i \in 1..n : leaves'[input[i][1] + 1] = input[i][2]
    ]_vars

\* C3 witness: a batch given out of cid order has been accepted.
C3_Witness ==
    /\ mres.op = "append"
    /\ mres.status = "ok"
    /\ Len(mres.input) >= 2
    /\ mres.input[1][1] > mres.input[2][1]
    /\ leaves[mres.input[1][1] + 1] # leaves[mres.input[2][1] + 1]

\* C4: leaf_count never decreases, a stored leaf never changes, and root,
\* build_proof_by_cids and verify_proof leave the tree as it was.
C4_AppendOnly ==
    [][/\ leaf_count(leaves') >= leaf_count(leaves)
       /\ \A i \in 1..Len(leaves) : leaves'[i] = leaves[i]
       /\ mres'.op \in {"root", "proof", "verify"} =>
             (leaves' = leaves /\ depth' = depth)
    ]_vars

\* C4 witness: a second batch has reached a tree that already held leaves,
\* and a proof of one of them has been checked.
C4_Witness ==
    /\ mres.op = "verify"
    /\ leaf_count(leaves) >= 3
    /\ leaves[1] # leaves[2]

\* C5: the root of a tree without leaves is Z[depth], and root() returns it
\* without failing, for every depth that new accepts.
C5_EmptyRootIsZ ==
    (mres.op = "root" /\ leaves = <<>>)
        => (mres.status = "ok" /\ mres.result = zero_hash_at(depth))


(***************************************************************************)
(* Claims about memos.                                                     *)
(***************************************************************************)
DecryptedCreated == dres.op = "decrypt" /\ wire.kind = "created"

\* C6: decrypt_memo never raises on a memo it cannot open: when the tag does
\* not match, the memo is shorter than 48 bytes, or the ephemeral-key bytes
\* do not decompress, the result is Ok(None).
C6_UnopenableIsNone ==
    (DecryptedCreated /\ wire.corrupt \in {"eph", "ct", "short"})
        => dres.res = Ok(<<>>)

Outcome(r) == IF ~r.ok THEN "Err" ELSE IF r.val = <<>> THEN "None" ELSE "Some"

\* C7: a well-formed memo made out to another key and a corrupted memo give
\* the same outcome (Ok(None), as opposed to Err of any kind): the outcome
\* of this run on the corrupted memo is the outcome of a run on the memo as
\* made under any key that is not the recipient's.
C7_WrongKeyLikeCorrupted ==
    (DecryptedCreated /\ wire.corrupt \in {"eph", "ct"})
        => \A sk \in Fr :
              scalar_mult(sk) # wire.ro.user_pk
                  => Outcome(decrypt_memo(sk, wire.orig)) = Outcome(dres.res)

\* C8 as stated: the memo made for R decrypts under sk to Some(R), every
\* field equal, and under every other secret key to None.
C8_RoundTripOnlyUnderSk ==
    (DecryptedCreated /\ wire.corrupt = "none")
        => dres.res = IF dres.sk = wire.sk THEN Ok(<<wire.ro>>) ELSE Ok(<<>>)

\* C8, amended: the memo made for R decrypts to Some(R), every field equal,
\* under every secret key whose public key is R's (sk among them), and to
\* None under every secret key whose public key is another.
C8_RoundTripByPublicKey ==
    (DecryptedCreated /\ wire.corrupt = "none")
        => dres.res = IF scalar_mult(dres.sk) = wire.ro.user_pk
                      THEN Ok(<<wire.ro>>) ELSE Ok(<<>>)

C8_Witness ==
    /\ DecryptedCreated
    /\ wire.corrupt = "none"
    /\ dres.sk = wire.sk
    /\ wire.sk > curve_order
    /\ wire.ro.is_frozen
    /\ wire.ro.asset_amount = FieldPrime - 1
    /\ dres.res = Ok(<<wire.ro>>)

(***************************************************************************)
(* Claims about the sync engine.                                           *)
(***************************************************************************)
StoredCursor(cs, id) == unwrap_or_default(get_sync_cursor(cs, id))

ChainIds == {chains[i] : i \in 1..Len(chains)}

\* C9: across sync_once passes run one after another, each succeeding or
\* failing at any step, no component (memo, nullifier, merkle) of the cursor
\* stored for a chain ever gets smaller, and a stored cursor stays stored.
C9_StoredCursorOnlyAdvances ==
    [][\A id \in ChainIds :
          /\ id \in DOMAIN cursors => id \in DOMAIN cursors'
          /\ StoredCursor(cursors, id).memo <= StoredCursor(cursors', id).memo
          /\ StoredCursor(cursors, id).nullifier <= StoredCursor(cursors', id).nullifier
          /\ StoredCursor(cursors, id).merkle <= StoredCursor(cursors', id).merkle]_vars

\* A pass has persisted a cursor for the last chain that is further on, in
\* memos and in nullifiers, than the non-zero one an earlier pass had stored.
C9_Witness ==
    /\ pc = "returned"
    /\ sync_result = [state |-> "Ok"]
    /\ pass_start # <<>>
    /\ pass_start[1].memo > 0
    /\ pass_start[1].nullifier > 0
    /\ cursors[chain_id].memo > pass_start[1].memo
    /\ cursors[chain_id].nullifier > pass_start[1].nullifier

NonContiguous(items, offset) ==
    \E i \in 1..Len(items) : items[i].cid # offset + (i - 1)

\* C10: when a fetched page of memos holds a memo whose cid is not the memo
\* cursor at the start of that page plus the memo's index in the page,
\* sync_memos fails there and then with an Other error, and the cursor
\* stored for the chain is what it was before the pass.
C10_NonContiguousPageFails ==
    (resp.kind = "memos" /\ resp.reply.ok /\ NonContiguous(resp.reply.val, resp.offset))
        => /\ pc = "returned"
           /\ sync_result = [state |-> "Err", err |-> "Other"]
           /\ get_sync_cursor(cursors, chain_id) = pass_start

\* The second page of a pass, on a chain with a stored cursor, is wrong in
\* its second memo.
C10_Witness ==
    /\ resp.kind = "memos"
    /\ resp.reply.ok
    /\ pass_start # <<>>
    /\ resp.offset > pass_start[1].memo
    /\ Len(resp.reply.val) >= 2
    /\ resp.reply.val[1].cid = resp.offset
    /\ resp.reply.val[2].cid # resp.offset + 1
    /\ pc = "returned"

C12_CompressRoundTrip ==
    (fres.op = "compress" /\ is_on_curve(fres.pt[1], fres.pt[2]))
        => /\ fres.compressed.ok
           /\ fres.decompressed = Ok(fres.pt)

\* A point outside the prime subgroup whose x is the larger root has made
\* the round trip.
C12_Witness ==
    /\ fres.op = "compress"
    /\ is_on_curve(fres.pt[1], fres.pt[2])
    /\ mul_point(fres.pt, curve_order) # identity
    /\ fres.pt[1] > FNeg(fres.pt[1])
    /\ fres.decompressed = Ok(fres.pt)

\* The sequence the claim names, hashed as a sequence of five is hashed.
RecordSequence(ro) ==
    <<<<ro.user_pk[1]>>, <<ro.user_pk[2]>>, <<ro.blinding_factor>>, <<ro.asset_id>>,
      <<IF ro.is_frozen THEN (ro.asset_amount + frozen_bit) % FieldPrime
        ELSE ro.asset_amount>>>>

HashOfFive(q, domain) ==
    hash_domain(hash_domain(hash_domain(hash_domain(q[1], q[2], domain), q[3], domain),
                            q[4], domain), q[5], domain)

\* C13 as stated: the commitment is the hash of [pk.x, pk.y, blinding,
\* asset_id, amount'], amount' = amount + 2^128 when frozen, and no other
\* opening, differing in any field, is folded into the same sequence (so
\* none has the same commitment).
C13_CommitmentBinds ==
    fres.op = "commitment"
        => /\ fres.out = HashOfFive(RecordSequence(fres.ro), "Record")
           /\ \A other \in CommitmentRecords :
                 other # fres.ro
                     => /\ RecordSequence(other) # RecordSequence(fres.ro)
                        /\ compute(other).val # fres.out

FitsBelowFrozenBit(ro) == ro.asset_amount < frozen_bit

\* C13, amended: the same, among openings whose amount fits in the 128 bits
\* below the frozen bit.
C13_CommitmentBindsSmallAmounts ==
    (fres.op = "commitment" /\ FitsBelowFrozenBit(fres.ro))
        => /\ fres.out = HashOfFive(RecordSequence(fres.ro), "Record")
           /\ \A other \in CommitmentRecords :
                 (other # fres.ro /\ FitsBelowFrozenBit(other))
                     => /\ RecordSequence(other) # RecordSequence(fres.ro)
                        /\ compute(other).val # fres.out

\* The commitment of a frozen opening with the largest amount that fits.
C13_Witness ==
    /\ fres.op = "commitment"
    /\ fres.ro.is_frozen
    /\ fres.ro.asset_amount = frozen_bit - 1
    /\ fres.out = HashOfFive(RecordSequence(fres.ro), "Record")

\* C14: for every secret key and commitment, the nullifier with freezer
\* Some(identity) is the nullifier with freezer None, and both are the hash
\* of (sk, commitment) under the Nullifier domain, no ECDH step taken.
C14_DefaultFreezer ==
    (fres.op = "nullifier" /\ fres.freezer_pk \in {<<>>, <<<<0, 1>>>>})
        => /\ fres.out = <<<<fres.sk>>, fres.commitment, "Nullifier">>
           /\ nullifier(fres.sk, fres.commitment, <<<<0, 1>>>>)
                  = nullifier(fres.sk, fres.commitment, <<>>)

\* nullifier has been called with Some(identity) and a key above l.
C14_Witness ==
    /\ fres.op = "nullifier"
    /\ fres.freezer_pk = <<<<0, 1>>>>
    /\ fres.sk > curve_order
    /\ fres.out = <<<<fres.sk>>, fres.commitment, "Nullifier">>

\* C15: called with no inputs and no seed, hash_sequence_with_domain hands
\* its caller a failure value: it returns no field element and does not
\* abort.
C15_EmptyUnseededIsError ==
    (fres.op = "hash_sequence" /\ fres.inputs = <<>> /\ fres.seed = <<>>)
        => fres.status = "err"

\* acc absorbing the list xs, last element outermost.
RECURSIVE Absorbed(_, _, _)
Absorbed(acc, xs, d) ==
    IF xs = <<>> THEN acc
    ELSE hash_domain(Absorbed(acc, SubSeq(xs, 1, Len(xs) - 1), d), xs[Len(xs)], d)

\* The rules of the fold, for every case but no inputs and no seed.
StatedFold(inputs, d, seed) ==
    IF inputs = <<>> THEN seed[1]
    ELSE IF Len(inputs) = 1 /\ seed = <<>> THEN hash_domain(<<0>>, inputs[1], d)
    ELSE IF seed # <<>>
         THEN Absorbed(hash_domain(seed[1], inputs[1], d), Tail(inputs), d)
         ELSE Absorbed(hash_domain(inputs[1], inputs[2], d), Tail(Tail(inputs)), d)

\* C19: hash_sequence_with_domain folds by the rules: no inputs and seed s
\* gives s; one input x and no seed gives hash_domain(0, x, d); with seed s
\* it starts from hash_domain(s, inputs[0], d) and absorbs inputs[1..] in
\* order; with no seed and two or more inputs it starts from
\* hash_domain(inputs[0], inputs[1], d) and absorbs inputs[2..] in order.
C19_FoldRules ==
    (fres.op = "hash_sequence" /\ ~(fres.inputs = <<>> /\ fres.seed = <<>>))
        => /\ fres.status = "ok"
           /\ fres.out = StatedFold(fres.inputs, fres.domain, fres.seed)

\* A seeded fold of three distinct-in-order inputs has been computed.
C19_Witness ==
    /\ fres.op = "hash_sequence"
    /\ fres.seed # <<>>
    /\ Len(fres.inputs) = 3
    /\ fres.inputs[1] # fres.inputs[2]
    /\ fres.out = StatedFold(fres.inputs, fres.domain, fres.seed)

\* C16: hex_to_field is total: for every string, with or without the 0x
\* prefix, in either letter case and of any length, it returns a field
\* element or the failure InvalidHex, and never traps.
C16_HexToFieldTotal ==
    fres.op = "hex_to_field"
        => /\ fres.status = "returned"
           /\ \/ fres.out = Err("InvalidHex")
              \/ fres.out.ok /\ fres.out.val \in Fr

\* C17: point_add, and with it mul_point, never traps: for every two inputs
\* in Fr x Fr, on the curve or not, it returns a pair of field elements.
C17_PointAddNeverTraps ==
    fres.op \in {"point_add", "mul_point"}
        => /\ fres.status = "returned"
           /\ fres.out \in Points

\* On points of the curve, point_add and mul_point have returned a point.
C17_OnCurveReturns ==
    (/\ fres.op = "point_add"
     /\ is_on_curve(fres.p1[1], fres.p1[2])
     /\ is_on_curve(fres.p2[1], fres.p2[2]))
        => fres.out \in CurvePoints

\* C20: for every output of the random source, random_scalar_mod_order
\* returns a scalar in [1, l): non-zero and below the subgroup order.
C20_EphemeralSecretInRange ==
    fres.op = "random_scalar" => (1 <= fres.out /\ fres.out < curve_order)

\* The scalar is below the subgroup order, whatever the random source gave.
C20_BelowOrder ==
    fres.op = "random_scalar" => (0 <= fres.out /\ fres.out < curve_order)

(***************************************************************************)
(* A claim about node evaluation in the Merkle accumulator.                *)
(***************************************************************************)
\* The positions of a level, and one past them.
PositionsAt(level) == 0..Pow2(depth - level)

\* C18: for every tree state, level l <= depth and position p, node(l, p),
\* with its short-circuit for empty subtrees, is the hash of the full
\* subtree over the leaf array with 0 in every slot from leaf_count on.
C18_NodeIsPlainRecursion ==
    /\ \A level \in 0..depth : \A position \in PositionsAt(level) :
          node(leaves, level, position) = Subtree(leaves, level, position)
    /\ mres.op = "root" => mres.result = Subtree(leaves, depth, 0)

\* The same for the depths the table of zero hashes reaches.
C18_WithinZeroHashes ==
    depth <= TREE_DEPTH_DEFAULT
        => /\ \A level \in 0..depth : \A position \in PositionsAt(level) :
                 node(leaves, level, position) = Subtree(leaves, level, position)
           /\ mres.op = "root" => mres.result = Subtree(leaves, depth, 0)

(***************************************************************************)
(* Claims about proofs of absent leaves and about rejected batches.        *)
(***************************************************************************)
\* C25: build_proof_by_cids only proves leaves that exist: in every tree
\* state, the empty tree included, a call that names a cid >= leaf_count
\* fails and returns no proof.
C25_NoProofOfAbsentLeaf ==
    (/\ mres.op = "proof"
     /\ \E i \in DOMAIN mres.cids : mres.cids[i] >= leaf_count(leaves))
        => /\ mres.status = "panic"
           /\ mres.proofs = <<>>

\* The same for trees that hold a leaf.
C25_NonEmptyTree ==
    (/\ mres.op = "proof"
     /\ leaves # <<>>
     /\ \E i \in DOMAIN mres.cids : mres.cids[i] >= leaf_count(leaves))
        => /\ mres.status = "panic"
           /\ mres.proofs = <<>>

\* C28: an append_leaves call that rejects its batch as non-contiguous
\* leaves leaf_count, every stored leaf and the root as they were.
C28_RejectedAppendChangesNothing ==
    [][(/\ mres.op # "append"
        /\ mres'.op = "append"
        /\ mres'.status = "panic")
          => /\ leaf_count(leaves') = leaf_count(leaves)
             /\ leaves' = leaves
             /\ root(depth, leaves') = root(depth, leaves)]_vars

\* A rejected batch only adds leaves: the ones that were there stay.
C28_RejectedAppendKeepsOldLeaves ==
    [][(/\ mres.op # "append"
        /\ mres'.op = "append"
        /\ mres'.status = "panic")
          => SubSeq(leaves', 1, Len(leaves)) = leaves]_vars

(***************************************************************************)
(* Claims about the order of a sync pass and about its events.             *)
(***************************************************************************)
\* The place of an event in the pass of its chain.
Phase(ev) ==
    CASE ev.type = "Start" -> 0
      [] ev.type = "Progress" /\ ev.resource = "memo" -> 1
      [] ev.type = "Progress" /\ ev.resource = "nullifier" -> 2
      [] ev.type = "Done" -> 3
      [] OTHER -> 4

\* The index in chains of the chain an event is about.
ChainIndexOf(ev) == CHOOSE k \in 1..Len(chains) : chains[k] = ev.chain_id

\* What the handler has been handed is Start, memo pages, nullifier pages,
\* Done, chain after chain in the configured order.
PassOrder ==
    /\ events # <<>> => Phase(events[1]) = 0 /\ ChainIndexOf(events[1]) = 1
    /\ \A i \in 1..(Len(events) - 1) :
          LET a == events[i]
              b == events[i + 1]
          IN  IF Phase(a) = 3
              THEN Phase(b) = 0 /\ ChainIndexOf(b) = ChainIndexOf(a) + 1
              ELSE /\ b.chain_id = a.chain_id
                   /\ Phase(b) \in 1..3
                   /\ Phase(b) >= Phase(a)

\* A failed pass is the last thing sync_once does: the failing chain has no
\* Done, and the chains after it have no event at all.
StopsAtFirstFailure ==
    sync_result.state = "Err"
        => /\ pc = "returned"
           /\ \A i \in 1..Len(events) :
                 /\ ChainIndexOf(events[i]) <= chain_index
                 /\ ChainIndexOf(events[i]) = chain_index => Phase(events[i]) # 3

\* The step that hands the handler a Done event.
EmitsDone ==
    /\ Len(events') = Len(events) + 1
    /\ events'[Len(events')].type = "Done"

\* The store's cursors after the step are the ones before it, but for
\* chain c, which has cursor cur.
CursorWritten(c, cur) ==
    /\ c \in DOMAIN cursors'
    /\ cursors'[c] = cur
    /\ \A k \in DOMAIN cursors' \ {c} : k \in DOMAIN cursors /\ cursors'[k] = cursors[k]
    /\ DOMAIN cursors \subseteq DOMAIN cursors'

\* C21: a pass for one chain is Start, then the memo pages, then the
\* nullifier pages, then one set_sync_cursor, then Done with the cursor
\* that was persisted; the cursor is written only after both phases have
\* succeeded; sync_once stops at the first chain that fails.
C21_PassOrder ==
    [][/\ PassOrder' /\ StopsAtFirstFailure'
       /\ EmitsDone => /\ pc = "persist"
                       /\ CursorWritten(events'[Len(events')].chain_id,
                                        events'[Len(events')].cursor)
       /\ cursors' # cursors => EmitsDone
       /\ (pc # "persist" /\ pc' = "persist")
             => /\ pc = "sync_nullifiers"
                /\ resp'.kind = "nullifiers" /\ resp'.reply.ok
       /\ (pc # "sync_nullifiers" /\ pc' = "sync_nullifiers")
             => /\ pc = "sync_memos"
                /\ resp'.kind = "memos" /\ resp'.reply.ok
                /\ first_mismatch(resp'.reply.val, cursor.memo) = 0
       /\ (pc # "sync_memos" /\ pc' = "sync_memos")
             => /\ pc = "sync_chain"
                /\ events' = Append(events, [type |-> "Start", chain_id |-> chain_id])
       /\ pc = "returned" => events' = <<>> /\ cursors' = cursors]_vars

\* Both chains have been synced, each with memo pages and nullifier pages.
C21_Witness ==
    /\ pc = "returned"
    /\ sync_result.state = "Ok"
    /\ \A k \in 1..Len(chains) : \A ph \in 0..3 :
          \E i \in 1..Len(events) :
             events[i].chain_id = chains[k] /\ Phase(events[i]) = ph

\* The terminal events for the chain of the Start at index i, after it.
Terminals(i) ==
    {j \in (i + 1)..Len(events) :
        /\ events[j].type \in {"Done", "Error"}
        /\ events[j].chain_id = events[i].chain_id}

\* C29: when sync_once returns, every Start that was emitted for a chain
\* has been followed by exactly one terminal event for that chain: Done
\* when the pass succeeded, Error when a step of the pass failed.
C29_StartHasOneTerminal ==
    pc = "returned"
        => \A i \in 1..Len(events) :
              events[i].type = "Start"
                 => /\ Cardinality(Terminals(i)) = 1
                    /\ \A j \in Terminals(i) :
                          events[j].type =
                             IF /\ sync_result.state = "Err"
                                /\ events[i].chain_id = chain_id
                             THEN "Error" ELSE "Done"

\* The same for a sync_once that returned Ok.
C29_DoneWhenOk ==
    (pc = "returned" /\ sync_result.state = "Ok")
        => \A i \in 1..Len(events) :
              events[i].type = "Start"
                 => /\ Cardinality(Terminals(i)) = 1
                    /\ \A j \in Terminals(i) : events[j].type = "Done"

(***************************************************************************)
(* Claims about the in-memory store.                                       *)
(***************************************************************************)
\* The step is a mark_spent call (a call that changes nothing and returns
\* what the call before it returned is no step at all).
MarkSpentCall == sres'.op = "mark_spent" /\ sres' # sres

\* The records mark_spent is to change: on the chain, named in the list,
\* not spent yet.
ToSpend(u, id, nullifiers) ==
    /\ u.chain_id = id
    /\ \E k \in DOMAIN nullifiers : nullifiers[k] = u.nullifier
    /\ ~u.is_spent

\* C23: mark_spent(chain_id, nullifiers) sets is_spent on exactly the
\* stored records that are on chain_id, have their nullifier in the list
\* and were unspent, returns the number of records it changed, and leaves
\* every other record and field as it was; the same call made again
\* returns 0 and changes nothing.
C23_MarkSpentFrame ==
    [][MarkSpentCall =>
        /\ Len(utxos') = Len(utxos)
        /\ \A i \in 1..Len(utxos) :
              utxos'[i] = IF ToSpend(utxos[i], sres'.chain_id, sres'.nullifiers)
                          THEN [chain_id |-> utxos[i].chain_id,
                                asset_id |-> utxos[i].asset_id,
                                commitment |-> utxos[i].commitment,
                                nullifier |-> utxos[i].nullifier,
                                is_spent |-> TRUE]
                          ELSE utxos[i]
        /\ sres'.count = Cardinality({i \in 1..Len(utxos) : utxos'[i] # utxos[i]})
        /\ cursors' = cursors
        /\ (/\ sres.op = "mark_spent"
            /\ sres.chain_id = sres'.chain_id
            /\ sres.nullifiers = sres'.nullifiers)
              => sres'.count = 0 /\ utxos' = utxos]_vars

\* mark_spent has changed one of two records that carry a listed nullifier:
\* the other one is on another chain.
C23_Witness ==
    /\ sres.op = "mark_spent"
    /\ sres.count = 1
    /\ Len(utxos) = 2
    /\ \E i, j \in 1..2 :
          /\ utxos[i].chain_id = sres.chain_id /\ utxos[i].is_spent
          /\ utxos[j].chain_id # sres.chain_id /\ ~utxos[j].is_spent
          /\ utxos[j].nullifier = utxos[i].nullifier
          /\ \E k \in DOMAIN sres.nullifiers : sres.nullifiers[k] = utxos[i].nullifier

\* The commitments of the records stored as spent.
SpentCommitments(store) ==
    {store[i].commitment : i \in {j \in 1..Len(store) : store[j].is_spent}}

\* The commitments list_utxos returns when asked for every unspent record.
ListedUnspent(store) ==
    LET out == list_utxos(store, [chain_id |-> <<>>, asset_id |-> <<>>,
                                  unspent_only |-> TRUE])
    IN  {out[i].commitment : i \in 1..Len(out)}

\* C27: a spent UTXO stays spent: once the record of a commitment is
\* stored with is_spent = true, no upsert_utxos, mark_spent or
\* set_sync_cursor call makes list_utxos with unspent_only = true return a
\* record of that commitment.
C27_SpentStaysSpent ==
    [][SpentCommitments(utxos) \cap ListedUnspent(utxos') = {}]_vars

\* The same for every call but upsert_utxos.
C27_SpentStaysSpentWithoutUpsert ==
    [][sres'.op # "upsert_utxos"
          => SpentCommitments(utxos) \cap ListedUnspent(utxos') = {}]_vars

(***************************************************************************)
(* A claim about polling the relayer.                                      *)
(***************************************************************************)
\* The poll at index i of the log yielded a chain tx hash / yielded no hash.
YieldsHash(log, i) == log[i].kind = "data" /\ log[i].data # <<>>

YieldsNone(log, i) ==
    log[i].kind = "status" \/ (log[i].kind = "data" /\ log[i].data = <<>>)

\* C22: wait_for_tx_hash calls get_tx_hash at most max_attempts times,
\* returns the first chain tx hash a poll yields and polls no further,
\* sleeps poll_interval_ms only between two attempts, never after the last,
\* and returns an error once max_attempts polls have yielded no hash (at
\* once, with no request, when max_attempts = 0).
C22_BoundedPolling ==
    [][/\ wcall'.op = "wait_for_tx_hash" =>
           /\ Len(polls') <= wcall'.max_attempts
           /\ \A i \in 1..(Len(polls') - 1) : ~YieldsHash(polls', i) /\ YieldsNone(polls', i)
           /\ \A k \in 1..Len(sleeps') :
                 /\ sleeps'[k].after = k
                 /\ sleeps'[k].ms = wcall'.poll_interval_ms
                 /\ k < wcall'.max_attempts
           /\ Len(sleeps') <= Len(polls')
           /\ wpc' = "returned" =>
                 /\ Len(sleeps') = IF polls' = <<>> THEN 0 ELSE Len(polls') - 1
                 /\ (polls' # <<>> /\ YieldsHash(polls', Len(polls')))
                       => wresult' = Ok(polls'[Len(polls')].data[1])
                 /\ wresult'.ok => polls' # <<>> /\ YieldsHash(polls', Len(polls'))
                 /\ (/\ Len(polls') = wcall'.max_attempts
                     /\ \A i \in 1..Len(polls') : YieldsNone(polls', i))
                       => wresult' = Err("Other")
                 /\ wcall'.max_attempts = 0 => polls' = <<>> /\ ~wresult'.ok
           /\ wpc' \in {"poll", "sleep"}
                 => \A i \in 1..Len(polls') : YieldsNone(polls', i)
       /\ wpc = "returned" => polls' \in {polls, <<>>} /\ sleeps' \in {sleeps, <<>>}]_vars

\* The hash came with the last of max_attempts polls, after a sleep
\* between every two of them.
C22_Witness ==
    /\ wpc = "returned"
    /\ wresult \in {Ok("t1"), Ok("t2")}
    /\ wcall.max_attempts = MaxAttempts
    /\ Len(polls) = MaxAttempts
    /\ Len(sleeps) = MaxAttempts - 1

(***************************************************************************)
(* A claim about coin selection.                                           *)
(***************************************************************************)
\* The sum of the values of the first k records of a list.
RECURSIVE SumOfFirst(_, _)
SumOfFirst(list, k) ==
    IF k = 0 THEN 0 ELSE SumOfFirst(list, k - 1) + val_of(list[k])

\* A list is some ordering of the records of another by descending value.
IsDescendingOrderOf(sorted, list) ==
    /\ Len(sorted) = Len(list)
    /\ \A i \in 1..Len(list) : \E j \in 1..Len(sorted) : sorted[j] = list[i]
    /\ \A i \in 1..(Len(sorted) - 1) : val_of(sorted[i]) >= val_of(sorted[i + 1])

\* The length of the shortest prefix whose sum reaches the required
\* amount, cut at max_inputs and at the length of the list.
GreedyLength(sorted, required_val, max_inputs) ==
    LET cap == IF max_inputs < Len(sorted) THEN max_inputs ELSE Len(sorted)
        reach == {k \in 0..cap : SumOfFirst(sorted, k) >= required_val}
    IN  IF reach = {} THEN cap ELSE CHOOSE k \in reach : \A m \in reach : k <= m

\* What the claim says of one call that has returned out.
GreedyAndBounded(list, required_val, max_inputs, out) ==
    /\ out # Trap
    /\ \E sorted \in {s \in [1..Len(list) -> {list[i] : i \in 1..Len(list)}] :
                         IsDescendingOrderOf(s, list)} :
          /\ out.selected =
                SubSeq(sorted, 1, GreedyLength(sorted, required_val, max_inputs))
          /\ LET cap == IF max_inputs < Len(sorted) THEN max_inputs ELSE Len(sorted)
             IN  SumOfFirst(sorted, cap) >= required_val => out.sum >= required_val
    /\ out.sum = SumOfFirst(out.selected, Len(out.selected))

\* C24: for every UTXO list, required amount and max_inputs, the selection
\* is the shortest prefix of the UTXOs in descending order of amount whose
\* sum reaches the required amount, cut at max_inputs entries; the returned
\* sum is the sum of the selected amounts; and when the largest max_inputs
\* UTXOs cover the required amount, the returned sum is >= that amount.
C24_GreedyAndBounded ==
    plan.op = "select_transfer_inputs"
        => GreedyAndBounded(plan.utxos, unwrap_or_0(plan.required),
                            plan.max_inputs, plan.out)

\* The same for the calls in which a positive amount is required and the
\* amounts of the list together fit the integer type.
C24_WithoutOverflow ==
    (/\ plan.op = "select_transfer_inputs"
     /\ unwrap_or_0(plan.required) >= 1
     /\ SumOfFirst(plan.utxos, Len(plan.utxos)) <= U128_MAX)
        => GreedyAndBounded(plan.utxos, unwrap_or_0(plan.required),
                            plan.max_inputs, plan.out)

(***************************************************************************)
(* A claim about a pass catching up with the entry service.                *)
(***************************************************************************)
\* The store holds, for every chain, the cursor at the end of the service's
\* sequences.
CaughtUp ==
    \A id \in ChainIdSet :
       /\ id \in DOMAIN cursors
       /\ cursors[id].memo = indexer.seqs[id].memos
       /\ cursors[id].nullifier = indexer.seqs[id].nullifiers

\* C30 as stated: against a service with fixed finite sequences (N memos,
\* M nullifiers per chain), served from the requested offset in pages of at
\* most page_size items, no request failing, sync_once terminates, and
\* when it has returned the store holds memo cursor N and nullifier
\* cursor M, from any stored starting cursor not ahead of the service.
C30_CatchesUp ==
    /\ [](pc \notin {"idle", "returned"} => <>(pc = "returned"))
    /\ [](pc = "returned" => sync_result.state = "Ok" /\ CaughtUp)

\* C30: sync_once terminates and returns Ok against every such service,
\* and the store is caught up when it has returned if the service fills
\* every page up to the limit (min(page_size, items left) items a page).
C30_CatchesUpOnFilledPages ==
    /\ [](pc \notin {"idle", "returned"} => <>(pc = "returned"))
    /\ [](pc = "returned" => sync_result.state = "Ok")
    /\ [](pc = "returned" /\ indexer.fills => CaughtUp)

\* A pass has caught up from nothing stored, over more than one page of
\* memos and of nullifiers of the last chain.
C30_Witness ==
    /\ pc = "returned"
    /\ indexer.fills
    /\ CaughtUp
    /\ pass_start = <<>>
    /\ indexer.seqs[chain_id].memos > page_size
    /\ indexer.seqs[chain_id].nullifiers > page_size

\* C26: when two sync_once passes on the same store and chain interleave at
\* their requests (both read the stored cursor before either writes it), no
\* component of the cursor stored for the chain ever gets smaller.
C26_InterleavedPassesOnlyAdvance ==
    [][/\ StoredCursor(cursors, SharedChain).memo
              <= StoredCursor(cursors', SharedChain).memo
       /\ StoredCursor(cursors, SharedChain).nullifier
              <= StoredCursor(cursors', SharedChain).nullifier
       /\ StoredCursor(cursors, SharedChain).merkle
              <= StoredCursor(cursors', SharedChain).merkle]_vars

\* C26, what does hold with interleaved passes: the cursor stored for the
\* chain is never ahead of the service.
C26_StoredNotAheadOfService ==
    /\ StoredCursor(cursors, SharedChain).memo <= indexer.seqs[SharedChain].memos
    /\ StoredCursor(cursors, SharedChain).nullifier
           <= indexer.seqs[SharedChain].nullifiers

=========================================================================
